---- MODULE Spec2Model ----
(***************************************************************************)
(* Wait-for-graph deadlock detection: the lock manager                     *)
(* (utils/transactionManager.js), the three wait-for-graph representations *)
(* (utils/wfgDataStructures.js and the classes of the algorithm demo) and  *)
(* the detection algorithms (utils/deadlockDetection.js, dfsDetectCycle).  *)
(*                                                                         *)
(* Wall-clock measurements (performance.now, Date.now, avgTime, totalTime, *)
(* the per-structure operationCount / operations log) are outside the      *)
(* model: they never influence the lock tables, the graph or a result.     *)
(***************************************************************************)
EXTENDS Integers, Sequences, FiniteSets, TLC

\* ------------------------------------------------------------------ universe

\* the transactions and resources handed to the TransactionManager constructor
TxOrder == <<"T1", "T2", "T3">>
ResOrder == <<"R1", "R2">>
TxIds == {TxOrder[i] : i \in 1..Len(TxOrder)}
ResIds == {ResOrder[i] : i \in 1..Len(ResOrder)}
\* ids that name no transaction / resource of the manager
UnknownTx == "T9"
UnknownRes == "R9"
\* JavaScript null, for fields holding an id
NULL == "null"

\* cap on metrics.operations (the manager's calls are otherwise unbounded)
MaxOperations == 5
\* ... of which the first MaxHelperOperations may be followed by a helper call
MaxHelperOperations == 3
\* cap on metrics.deadlocksDetected
MaxDeadlocks == 2
\* cap on metrics.operations in the runs of known ids on one representation
MaxLockOperations == 6
\* cap on the number of edges of a graph over four transactions
MaxWaitEdges == 5
\* cap on the number of edges of a graph built on its own
MaxEdges == 4
\* cap on the length of a cycle argument handed to a victim selector
MaxCycleLen == 4
\* edges of a graph handed to the demo's victim selectors
MaxSelectEdges == 3
\* nodes of a cycle sequence handed to selectVictimFromCycle
MaxSelectLen == 3
\* acquireLock calls are made while fewer operations than this were counted
MaxFairOperations == 4

\* optional values whose payload is not an id: null is Null, a value x is Some(x)
Null == {}
Some(x) == {x}
IsNull(o) == o = {}
Val(o) == CHOOSE x \in o : TRUE

\* ------------------------------------------------------------------ sequences

Range(s) == {s[i] : i \in 1..Len(s)}
\* Array.prototype.includes
Includes(s, x) == \E i \in 1..Len(s) : s[i] = x
\* Array.prototype.filter(id => id !== x)
Without(s, x) == SelectSeq(s, LAMBDA y : y # x)
\* Array.prototype.indexOf, -1 when absent (0-based)
IndexOf(s, x) ==
  IF Includes(s, x) THEN (CHOOSE i \in 1..Len(s) : s[i] = x /\ \A j \in 1..(i-1) : s[j] # x) - 1
  ELSE -1
\* Array.prototype.slice(start) with a possibly negative start (0-based)
SliceFrom(s, start) ==
  LET from == IF start < 0 THEN (IF Len(s) + start < 0 THEN 0 ELSE Len(s) + start) ELSE start
  IN IF from >= Len(s) THEN <<>> ELSE SubSeq(s, from + 1, Len(s))
RECURSIVE Reverse(_)
Reverse(s) == IF s = <<>> THEN <<>> ELSE Append(Reverse(Tail(s)), Head(s))
\* arr.slice(0, -1)
DropLast(s) == IF Len(s) = 0 THEN <<>> ELSE SubSeq(s, 1, Len(s) - 1)

\* ------------------------------------------------- wfgDataStructures.js
\* A graph object is a record
\*   kind   : which class it is
\*   nodes  : the node ids in the order getNodes() lists them (the insertion
\*            order of the object keys / Map keys / the nodes array)
\*   adj    : per node the neighbour array / Set in insertion order
\*            (adjacency list and hash map; <<>> for an absent key)
\*   matrix : the (from, to) pairs whose matrix cell is 1 (adjacency matrix)
NoAdj == [n \in TxIds |-> <<>>]

AL_new == [kind |-> "adjacencyList", nodes |-> <<>>, adj |-> NoAdj, matrix |-> {}]
AM_new(nodes) == [kind |-> "adjacencyMatrix", nodes |-> nodes, adj |-> NoAdj, matrix |-> {}]
HM_new == [kind |-> "hashMapSets", nodes |-> <<>>, adj |-> NoAdj, matrix |-> {}]

HasKey(g, n) == Includes(g.nodes, n)
AddKey_always(g, n) == [g EXCEPT !.nodes = Append(@, n)]
AddKey(g, n) == IF HasKey(g, n) THEN g ELSE [g EXCEPT !.nodes = Append(@, n)]

AL_addEdge(g, from, to) ==
  LET g1 == AddKey(g, from)
      g2 == IF Includes(g1.adj[from], to) THEN g1
            ELSE [g1 EXCEPT !.adj[from] = Append(@, to)]
  IN AddKey(g2, to)

AL_removeEdge(g, from, to) ==
  IF HasKey(g, from) THEN [g EXCEPT !.adj[from] = Without(@, to)] ELSE g

\* this.adjacencyList[node] || []
AL_getNeighbors(g, node) == IF HasKey(g, node) THEN g.adj[node] ELSE <<>>

AL_getNodes(g) == g.nodes

AM_addNode(g, nodeId) == AddKey(g, nodeId)

AM_addEdge(g, from, to) ==
  LET g1 == AM_addNode(AM_addNode(g, from), to)
  IN [g1 EXCEPT !.matrix = @ \cup {<<from, to>>}]

AM_removeEdge(g, from, to) ==
  IF ~HasKey(g, from) \/ ~HasKey(g, to) THEN g
  ELSE [g EXCEPT !.matrix = @ \ {<<from, to>>}]

\* scans the row in index order
AM_getNeighbors(g, node) ==
  IF ~HasKey(g, node) THEN <<>>
  ELSE SelectSeq(g.nodes, LAMBDA m : <<node, m>> \in g.matrix)

AM_getNodes(g) == g.nodes

HM_addEdge(g, from, to) ==
  LET g1 == AddKey(g, from)
      g2 == IF Includes(g1.adj[from], to) THEN g1
            ELSE [g1 EXCEPT !.adj[from] = Append(@, to)]
  IN AddKey(g2, to)

HM_removeEdge(g, from, to) ==
  IF HasKey(g, from) THEN [g EXCEPT !.adj[from] = Without(@, to)] ELSE g

HM_getNeighbors(g, node) == IF HasKey(g, node) THEN g.adj[node] ELSE <<>>

HM_getNodes(g) == g.nodes

AL_clear(g) == AL_new

\* initializeMatrix() rebuilds the cells and the index map from this.nodes
AM_clear(g) == [g EXCEPT !.matrix = {}]

HM_clear(g) == HM_new

\* ------------------------------------- the graph classes of the algorithm demo
\* Same record as above; kind is "demoList", "demoMatrix" or "demoHashMap".
DL_new == [kind |-> "demoList", nodes |-> <<>>, adj |-> NoAdj, matrix |-> {}]
DM_new == [kind |-> "demoMatrix", nodes |-> <<>>, adj |-> NoAdj, matrix |-> {}]
DH_new == [kind |-> "demoHashMap", nodes |-> <<>>, adj |-> NoAdj, matrix |-> {}]

DL_addNode(g, node) == AddKey(g, node)

DL_addEdge(g, from, to) ==
  LET g1 == DL_addNode(DL_addNode(g, from), to)
  IN IF Includes(g1.adj[from], to) THEN g1 ELSE [g1 EXCEPT !.adj[from] = Append(@, to)]

DL_getNeighbors(g, node) == g.adj[node]

DL_getNodes(g) == g.nodes

DL_clear(g) == DL_new

DL_removeNode_outgoingOnly(g, node) ==
  IF ~HasKey(g, node) THEN g
  ELSE [g EXCEPT !.nodes = Without(@, node), !.adj[node] = <<>>]
\* deletes the node's own array, splices the node out of every other array
DL_removeNode(g, node) ==
  IF ~HasKey(g, node) THEN g
  ELSE [g EXCEPT !.nodes = Without(@, node),
                 !.adj = [n \in TxIds |-> IF n = node THEN <<>> ELSE Without(g.adj[n], node)]]

\* what removeNode returns: false for a node the Set does not have, else true
DL_removeNodeReturns(g, node) == HasKey(g, node)

DM_addNode(g, node) == AddKey(g, node)

DM_addEdge(g, from, to) ==
  LET g1 == DM_addNode(DM_addNode(g, from), to)
  IN [g1 EXCEPT !.matrix = @ \cup {<<from, to>>}]

DM_getNeighbors(g, node) ==
  IF ~HasKey(g, node) THEN <<>>
  ELSE SelectSeq(g.nodes, LAMBDA m : <<node, m>> \in g.matrix)

DM_getNodes(g) == g.nodes

DM_clear(g) == DM_new

DH_addNode(g, node) == AddKey(g, node)

DH_addEdge(g, from, to) ==
  LET g1 == DH_addNode(DH_addNode(g, from), to)
  IN IF Includes(g1.adj[from], to) THEN g1 ELSE [g1 EXCEPT !.adj[from] = Append(@, to)]

DH_getNeighbors(g, node) == IF HasKey(g, node) THEN g.adj[node] ELSE <<>>

DH_getNodes(g) == g.nodes

DH_clear(g) == DH_new

createWFG(type, nodes) ==
  CASE type = "adjacencyList" -> AL_new
    [] type = "adjacencyMatrix" -> AM_new(nodes)
    [] type = "hashMapSets" -> HM_new

DSTypes == {"adjacencyList", "adjacencyMatrix", "hashMapSets"}

\* the method calls of the manager and of the algorithms, dispatched on the class
addEdge(g, from, to) ==
  CASE g.kind = "adjacencyList" -> AL_addEdge(g, from, to)
    [] g.kind = "adjacencyMatrix" -> AM_addEdge(g, from, to)
    [] g.kind = "hashMapSets" -> HM_addEdge(g, from, to)
    [] g.kind = "demoList" -> DL_addEdge(g, from, to)
    [] g.kind = "demoMatrix" -> DM_addEdge(g, from, to)
    [] g.kind = "demoHashMap" -> DH_addEdge(g, from, to)

removeEdge(g, from, to) ==
  CASE g.kind = "adjacencyList" -> AL_removeEdge(g, from, to)
    [] g.kind = "adjacencyMatrix" -> AM_removeEdge(g, from, to)
    [] g.kind = "hashMapSets" -> HM_removeEdge(g, from, to)

clear(g) ==
  CASE g.kind = "adjacencyList" -> AL_clear(g)
    [] g.kind = "adjacencyMatrix" -> AM_clear(g)
    [] g.kind = "hashMapSets" -> HM_clear(g)
    [] g.kind = "demoList" -> DL_clear(g)
    [] g.kind = "demoMatrix" -> DM_clear(g)
    [] g.kind = "demoHashMap" -> DH_clear(g)

getNeighbors(g, node) ==
  CASE g.kind = "adjacencyList" -> AL_getNeighbors(g, node)
    [] g.kind = "adjacencyMatrix" -> AM_getNeighbors(g, node)
    [] g.kind = "hashMapSets" -> HM_getNeighbors(g, node)
    [] g.kind = "demoList" -> DL_getNeighbors(g, node)
    [] g.kind = "demoMatrix" -> DM_getNeighbors(g, node)
    [] g.kind = "demoHashMap" -> DH_getNeighbors(g, node)

getNodes(g) ==
  CASE g.kind = "adjacencyList" -> AL_getNodes(g)
    [] g.kind = "adjacencyMatrix" -> AM_getNodes(g)
    [] g.kind = "hashMapSets" -> HM_getNodes(g)
    [] g.kind = "demoList" -> DL_getNodes(g)
    [] g.kind = "demoMatrix" -> DM_getNodes(g)
    [] g.kind = "demoHashMap" -> DH_getNodes(g)

\* hasEdge(from, to) of the three classes
AL_hasEdge(g, from, to) == IF HasKey(g, from) THEN Includes(g.adj[from], to) ELSE FALSE

AM_hasEdge_transposed(g, from, to) ==
  IF ~HasKey(g, from) \/ ~HasKey(g, to) THEN FALSE ELSE <<to, from>> \in g.matrix
\* false when either index is undefined, else matrix[fromIndex][toIndex] === 1
AM_hasEdge(g, from, to) ==
  IF ~HasKey(g, from) \/ ~HasKey(g, to) THEN FALSE ELSE <<from, to>> \in g.matrix

HM_hasEdge(g, from, to) == HasKey(g, from) /\ Includes(g.adj[from], to)

hasEdge(g, from, to) ==
  CASE g.kind = "adjacencyList" -> AL_hasEdge(g, from, to)
    [] g.kind = "adjacencyMatrix" -> AM_hasEdge(g, from, to)
    [] g.kind = "hashMapSets" -> HM_hasEdge(g, from, to)

\* getAllEdges(): the (from, to) pairs, row by row
RECURSIVE EdgeRows(_, _)
EdgeRows(g, ns) ==
  IF ns = <<>> THEN <<>>
  ELSE LET from == Head(ns)
           nb == getNeighbors(g, from)
       IN [i \in 1..Len(nb) |-> <<from, nb[i]>>] \o EdgeRows(g, Tail(ns))
getAllEdges(g) == EdgeRows(g, getNodes(g))

estimateMemoryUsage(g) ==
  LET n == Len(getNodes(g))
      e == Len(getAllEdges(g))
  IN CASE g.kind = "adjacencyList" -> n * 50 + e * 20
       [] g.kind = "adjacencyMatrix" -> n * n * 4 + n * 50
       [] g.kind = "hashMapSets" -> n * 60 + e * 25

\* the edge set of a graph object, as the interface shows it
Edges(g) == {<<a, b>> \in TxIds \X TxIds : Includes(getNeighbors(g, a), b)}

\* ------------------------------------------------- dfsDetectCycle (demo)
\* The closure state is the record [visited, recStack, trace, cycleFound];
\* dfsVisit returns [result, st]: what the call returns and the state it leaves.
\* Trace events are records tagged by type.

VisitEvent(node, path) == [type |-> "visit", node |-> node, status |-> "gray", path |-> Append(path, node)]
EdgeEvent(from, to) == [type |-> "edge", from |-> from, to |-> to]
CycleEvent(cycle) == [type |-> "cycle", cycle |-> cycle]
BacktrackEvent(node) == [type |-> "backtrack", node |-> node, status |-> "black"]

\* (trace.find(t => t.type === 'visit' && t.node === cur)?.path || []).slice(-2, -1)[0] || null
TraceParent(trace, cur) ==
  LET hits == {i \in 1..Len(trace) : trace[i].type = "visit" /\ trace[i].node = cur}
  IN IF hits = {} THEN NULL
     ELSE LET first == CHOOSE i \in hits : \A j \in hits : i <= j
              p == trace[first].path
          IN IF Len(p) >= 2 THEN p[Len(p) - 1] ELSE NULL

\* while (cur !== neighbor && cur != null) { cycle.push(cur); cur = parent of cur }
RECURSIVE WalkBack(_, _, _, _)
WalkBack(trace, cur, neighbor, cycle) ==
  IF cur # neighbor /\ cur # NULL
  THEN WalkBack(trace, TraceParent(trace, cur), neighbor, Append(cycle, cur))
  ELSE cycle

RECURSIVE dfsVisit(_, _, _, _), dfsVisitLoop(_, _, _, _, _, _)
dfsVisitLoop(g, node, path, neighbors, i, st) ==
  IF i > Len(neighbors)
  THEN [result |-> Null,
        st |-> [st EXCEPT !.recStack = @ \ {node},
                          !.trace = Append(@, BacktrackEvent(node))]]
  ELSE
  LET neighbor == neighbors[i]
      st1 == [st EXCEPT !.trace = Append(@, EdgeEvent(node, neighbor))]
  IN
  IF neighbor \notin st1.visited
  THEN LET r == dfsVisit(g, neighbor, Append(path, node), st1)
       IN IF ~IsNull(r.result) THEN r
          ELSE dfsVisitLoop(g, node, path, neighbors, i + 1, r.st)
  ELSE IF neighbor \in st1.recStack
  THEN LET cycle == WalkBack(st1.trace, node, neighbor, <<neighbor>>)
       IN IF Len(cycle) < 2
          THEN LET fallback == Append(Append(path, node), neighbor)
               IN [result |-> Some(fallback),
                   st |-> [st1 EXCEPT !.cycleFound = Some(fallback),
                                      !.trace = Append(@, CycleEvent(fallback))]]
          ELSE LET closed == Reverse(Append(cycle, neighbor))
               IN [result |-> Some(closed),
                   st |-> [st1 EXCEPT !.trace = Append(@, CycleEvent(closed)),
                                      !.cycleFound = Some(closed)]]
  ELSE dfsVisitLoop(g, node, path, neighbors, i + 1, st1)

dfsVisit(g, node, path, st) ==
  LET st1 == [st EXCEPT !.visited = @ \cup {node},
                        !.recStack = @ \cup {node},
                        !.trace = Append(@, VisitEvent(node, path))]
  IN dfsVisitLoop(g, node, path, getNeighbors(g, node), 1, st1)

\* for (const node of nodes) if (!visited.has(node)) { result = dfsVisit(node); if (result) break; }
dfsRoots_firstOnly(g, nodes, st) ==
  IF nodes = <<>> THEN st ELSE dfsVisit(g, Head(nodes), <<>>, st).st
RECURSIVE dfsRoots_revisit(_, _, _)
dfsRoots_revisit(g, nodes, st) ==
  IF nodes = <<>> THEN st
  ELSE LET r == dfsVisit(g, Head(nodes), <<>>, st)
       IN IF ~IsNull(r.result) THEN r.st ELSE dfsRoots_revisit(g, Tail(nodes), r.st)
RECURSIVE dfsRoots(_, _, _)
dfsRoots(g, nodes, st) ==
  IF nodes = <<>> THEN st
  ELSE IF Head(nodes) \in st.visited THEN dfsRoots(g, Tail(nodes), st)
  ELSE LET r == dfsVisit(g, Head(nodes), <<>>, st)
       IN IF ~IsNull(r.result) THEN r.st ELSE dfsRoots(g, Tail(nodes), r.st)

dfsDetectCycle(g) ==
  LET st == dfsRoots(g, getNodes(g),
                     [visited |-> {}, recStack |-> {}, trace |-> <<>>, cycleFound |-> Null])
  IN [cycle |-> st.cycleFound, trace |-> st.trace, visited |-> Cardinality(st.visited)]

\* ------------------------------------------------- deadlockDetection.js

\* same set of nodes as an earlier cycle, the closing node left out
isCycleDuplicate(existingCycles, newCycle) ==
  LET newCycleSet == Range(DropLast(newCycle))
  IN \E i \in 1..Len(existingCycles) : Range(DropLast(existingCycles[i])) = newCycleSet

\* The closure state is [visited, recStack, cycles]; dfs returns [found, st].
\* pathMap is written and never read, and is left out.
RECURSIVE dfs(_, _, _, _), dfsLoop(_, _, _, _, _, _)
dfsLoop(g, node, path, neighbors, i, st) ==
  IF i > Len(neighbors)
  THEN [found |-> FALSE, st |-> [st EXCEPT !.recStack = @ \ {node}]]
  ELSE
  LET neighbor == neighbors[i]
  IN
  IF neighbor \notin st.visited
  THEN LET r == dfs(g, neighbor, path, st)
       IN IF r.found THEN r ELSE dfsLoop(g, node, path, neighbors, i + 1, r.st)
  ELSE IF neighbor \in st.recStack
  THEN LET cycleStartIndex == IndexOf(path, neighbor)
           cycle == Append(SliceFrom(path, cycleStartIndex), neighbor)
       IN [found |-> TRUE,
           st |-> IF isCycleDuplicate(st.cycles, cycle) THEN st
                  ELSE [st EXCEPT !.cycles = Append(@, cycle)]]
  ELSE dfsLoop(g, node, path, neighbors, i + 1, st)

\* path is the caller's copy; the node is pushed onto it
dfs(g, node, path, st) ==
  LET st1 == [st EXCEPT !.visited = @ \cup {node}, !.recStack = @ \cup {node}]
  IN dfsLoop(g, node, Append(path, node), getNeighbors(g, node), 1, st1)

\* for (const node of nodes) if (!visited.has(node)) dfs(node, [])  -- no break
RECURSIVE detectRoots(_, _, _)
detectRoots(g, nodes, st) ==
  IF nodes = <<>> THEN st
  ELSE IF Head(nodes) \in st.visited THEN detectRoots(g, Tail(nodes), st)
  ELSE detectRoots(g, Tail(nodes), dfs(g, Head(nodes), <<>>, st).st)

detectDeadlock(g) ==
  LET st == detectRoots(g, getNodes(g), [visited |-> {}, recStack |-> {}, cycles |-> <<>>])
  IN [hasCycle |-> Len(st.cycles) > 0, cycles |-> st.cycles,
      visitedNodes |-> Cardinality(st.visited)]

\* getDeadlockedTransactions: the Set of the nodes of all cycles, as an array in
\* insertion order
RECURSIVE AddAll(_, _)
AddAll(deadlocked, nodes) ==
  IF nodes = <<>> THEN deadlocked
  ELSE AddAll(IF Includes(deadlocked, Head(nodes)) THEN deadlocked
              ELSE Append(deadlocked, Head(nodes)),
              Tail(nodes))
RECURSIVE CollectNodes(_, _)
CollectNodes(deadlocked, cycles) ==
  IF cycles = <<>> THEN deadlocked
  ELSE CollectNodes(AddAll(deadlocked, Head(cycles)), Tail(cycles))
getDeadlockedTransactions(cycles) == CollectNodes(<<>>, cycles)

\* cycles.some(cycle => cycle.includes(transactionId))
isTransactionDeadlocked(transactionId, cycles) ==
  \E i \in 1..Len(cycles) : Includes(cycles[i], transactionId)

\* Tarjan: the closure state is [indices, lowLinks, onStack, stack, sccs, index],
\* indices and lowLinks being maps keyed by the nodes seen so far.
Min2_left(a, b) == a
\* Math.min
Min2(a, b) == IF a < b THEN a ELSE b
MapSet(f, k, v) == IF k \in DOMAIN f THEN [f EXCEPT ![k] = v] ELSE (k :> v) @@ f

\* do { w = stack.pop(); onStack.delete(w); scc.push(w) } while (w !== node)
RECURSIVE PopScc(_, _, _)
PopScc(st, node, scc) ==
  LET w == st.stack[Len(st.stack)]
      st1 == [st EXCEPT !.stack = DropLast(@), !.onStack = @ \ {w}]
      scc1 == Append(scc, w)
  IN IF w # node THEN PopScc(st1, node, scc1)
     ELSE [st1 EXCEPT !.sccs = Append(@, scc1)]

RECURSIVE strongConnect(_, _, _), strongConnectLoop(_, _, _, _, _)
strongConnectLoop(g, node, neighbors, i, st) ==
  IF i > Len(neighbors)
  THEN IF st.lowLinks[node] = st.indices[node] THEN PopScc(st, node, <<>>) ELSE st
  ELSE
  LET neighbor == neighbors[i]
  IN
  IF neighbor \notin DOMAIN st.indices
  THEN LET st1 == strongConnect(g, neighbor, st)
           st2 == [st1 EXCEPT !.lowLinks[node] = Min2(st1.lowLinks[node], st1.lowLinks[neighbor])]
       IN strongConnectLoop(g, node, neighbors, i + 1, st2)
  ELSE IF neighbor \in st.onStack
  THEN strongConnectLoop(g, node, neighbors, i + 1,
         [st EXCEPT !.lowLinks[node] = Min2(st.lowLinks[node], st.indices[neighbor])])
  ELSE strongConnectLoop(g, node, neighbors, i + 1, st)

strongConnect(g, node, st) ==
  LET st1 == [st EXCEPT !.indices = MapSet(@, node, st.index),
                        !.lowLinks = MapSet(@, node, st.index),
                        !.index = @ + 1,
                        !.stack = Append(@, node),
                        !.onStack = @ \cup {node}]
  IN strongConnectLoop(g, node, getNeighbors(g, node), 1, st1)

RECURSIVE tarjanRoots(_, _, _)
tarjanRoots(g, nodes, st) ==
  IF nodes = <<>> THEN st
  ELSE IF Head(nodes) \in DOMAIN st.indices THEN tarjanRoots(g, Tail(nodes), st)
  ELSE tarjanRoots(g, Tail(nodes), strongConnect(g, Head(nodes), st))

detectDeadlockTarjan(g) ==
  LET st == tarjanRoots(g, getNodes(g),
              [indices |-> <<>>, lowLinks |-> <<>>, onStack |-> {}, stack |-> <<>>,
               sccs |-> <<>>, index |-> 0])
      deadlocks == SelectSeq(st.sccs, LAMBDA scc : Len(scc) > 1)
  IN [sccs |-> st.sccs, deadlocks |-> deadlocks, hasDeadlock |-> Len(deadlocks) > 0]

\* ------------------------------- computeConflictColorsByReachability (demo)
\* reach[n]: breadth-first search from n over getNeighbors; q is the queue,
\* seen the visited set (n included), reach the nodes found (n never added)
BfsPush_drop(q, nb) == q
\* q.push(nb)
BfsPush(q, nb) == Append(q, nb)
RECURSIVE BfsNeighbors(_, _, _)
BfsNeighbors(nbs, i, st) ==
  IF i > Len(nbs) THEN st
  ELSE IF nbs[i] \notin st.seen
       THEN BfsNeighbors(nbs, i + 1, [q |-> BfsPush(st.q, nbs[i]),
                                      seen |-> st.seen \cup {nbs[i]},
                                      reach |-> st.reach \cup {nbs[i]}])
       ELSE BfsNeighbors(nbs, i + 1, st)
RECURSIVE ReachBfs(_, _)
ReachBfs(g, st) ==
  IF st.q = <<>> THEN st.reach
  ELSE LET cur == Head(st.q)
       IN ReachBfs(g, BfsNeighbors(getNeighbors(g, cur), 1, [st EXCEPT !.q = Tail(@)]))
FirstFree_fresh(used) == Cardinality(used)
\* smallest colour not in used: let c = 0; while (used.has(c)) c++
FirstFree(used) ==
  CHOOSE c \in 0..Cardinality(used) : c \notin used /\ \A d \in 0..(c - 1) : d \in used
RECURSIVE GreedyColors(_, _, _, _)
GreedyColors(nodes, i, conflictAdj, colors) ==
  IF i > Len(nodes) THEN colors
  ELSE LET node == nodes[i]
           used == {colors[nb] : nb \in {x \in conflictAdj[node] : x \in DOMAIN colors}}
       IN GreedyColors(nodes, i + 1, conflictAdj, MapSet(colors, node, FirstFree(used)))
computeConflictColorsByReachability(g) ==
  LET nodes == getNodes(g)
      reach == [n \in Range(nodes) |-> ReachBfs(g, [q |-> <<n>>, seen |-> {n}, reach |-> {}])]
      conflictAdj == [a \in Range(nodes) |->
                        {b \in Range(nodes) : b # a /\ (b \in reach[a] \/ a \in reach[b])}]
      colors == GreedyColors(nodes, 1, conflictAdj, <<>>)
      used == {colors[n] : n \in DOMAIN colors}
      groups == [c \in used |-> SelectSeq(nodes, LAMBDA n : colors[n] = c)]
  IN [colors |-> colors, groups |-> groups, conflictAdj |-> conflictAdj]

\* the wrapper of the demo: chromaticNumber is Object.keys(res.groups).length
greedyVertexColoring(g) ==
  LET res == computeConflictColorsByReachability(g)
  IN [colors |-> res.colors, groups |-> res.groups,
      chromaticNumber |-> Cardinality(DOMAIN res.groups)]

\* ------------------------------------------------- victim selection
\* JavaScript undefined, for a result that is no id
UNDEFINED == "undefined"

\* selectVictimFromCycle (demo): the score outDeg + inDeg * 0.5 is kept as the
\* integer 2 * outDeg + inDeg, the initial bestScore -1 as -2
InDegree(g, node) ==
  Cardinality({i \in 1..Len(getNodes(g)) : Includes(getNeighbors(g, getNodes(g)[i]), node)})
DegreeScore_outOnly(g, node) == 2 * Len(getNeighbors(g, node))
DegreeScore(g, node) == 2 * Len(getNeighbors(g, node)) + InDegree(g, node)
RECURSIVE BestByScoreLoop(_, _, _, _, _)
BestByScoreLoop(seq, i, score, best, bestScore) ==
  IF i > Len(seq) THEN best
  ELSE IF score[seq[i]] > bestScore
       THEN BestByScoreLoop(seq, i + 1, score, seq[i], score[seq[i]])
       ELSE BestByScoreLoop(seq, i + 1, score, best, bestScore)
selectVictimFromCycle_anyNode(g, cycle) ==
  IF cycle = <<>> THEN NULL
  ELSE BestByScoreLoop(getNodes(g), 1, [n \in Range(getNodes(g)) |-> DegreeScore(g, n)],
                       cycle[1], -2)
selectVictimFromCycle(g, cycle) ==
  IF cycle = <<>> THEN NULL
  ELSE BestByScoreLoop(cycle, 1, [n \in Range(cycle) |-> DegreeScore(g, n)], cycle[1], -2)

\* bfsVictimSelection (demo). bfsSum(start): the sum of the breadth-first
\* distances from start; st is [q, idx, seen, dist], dist a map node -> distance
RECURSIVE BfsSumNeighbors(_, _, _, _)
BfsSumNeighbors(nbs, i, cur, st) ==
  IF i > Len(nbs) THEN st
  ELSE IF nbs[i] \notin st.seen
       THEN BfsSumNeighbors(nbs, i + 1, cur,
              [st EXCEPT !.seen = @ \cup {nbs[i]},
                         !.dist = MapSet(@, nbs[i], st.dist[cur] + 1),
                         !.q = Append(@, nbs[i])])
       ELSE BfsSumNeighbors(nbs, i + 1, cur, st)
RECURSIVE BfsSumLoop(_, _)
BfsSumLoop(g, st) ==
  IF st.idx >= Len(st.q) THEN st
  ELSE LET cur == st.q[st.idx + 1]
       IN BfsSumLoop(g, BfsSumNeighbors(getNeighbors(g, cur), 1, cur, [st EXCEPT !.idx = @ + 1]))
RECURSIVE SumOver(_, _)
SumOver(f, S) ==
  IF S = {} THEN 0 ELSE LET x == CHOOSE y \in S : TRUE IN f[x] + SumOver(f, S \ {x})
bfsSum_count(g, start) ==
  LET st == BfsSumLoop(g, [q |-> <<start>>, idx |-> 0, seen |-> {start},
                           dist |-> MapSet(<<>>, start, 0)])
  IN Len(st.q)
bfsSum(g, start) ==
  LET st == BfsSumLoop(g, [q |-> <<start>>, idx |-> 0, seen |-> {start},
                           dist |-> MapSet(<<>>, start, 0)])
  IN SumOver(st.dist, DOMAIN st.dist)
\* bestScore starts at -Infinity: every score (>= 0) beats -1
bfsVictimSelection(g) ==
  LET cycle == dfsDetectCycle(g).cycle
  IN IF IsNull(cycle) \/ Val(cycle) = <<>> THEN [victim |-> NULL, cycle |-> Null]
     ELSE LET c == Val(cycle)
              best == BestByScoreLoop(c, 1, [n \in Range(c) |-> bfsSum(g, n)], NULL, -1)
          IN [victim |-> IF best = NULL THEN selectVictimFromCycle(g, c) ELSE best,
              cycle |-> cycle]

\* selectVictim (deadlockDetection.js): parseInt(id.substring(1))
IdNum(id) == IF id = UnknownTx THEN 9 ELSE IndexOf(TxOrder, id) + 1
\* Array.prototype.sort((a, b) => numA - numB), stable: insertion from the left
RECURSIVE InsertByNum(_, _)
InsertByNum(sorted, id) ==
  IF sorted = <<>> THEN <<id>>
  ELSE IF IdNum(sorted[Len(sorted)]) <= IdNum(id) THEN Append(sorted, id)
  ELSE Append(InsertByNum(DropLast(sorted), id), sorted[Len(sorted)])
RECURSIVE SortByNum(_)
SortByNum(ids) ==
  IF ids = <<>> THEN <<>> ELSE InsertByNum(SortByNum(DropLast(ids)), ids[Len(ids)])
selectVictim_youngest(cycle, txs) == TxOrder[Len(TxOrder)]
\* the id of the returned object { id: nodeId, ...tx }; undefined when the
\* victims array is empty
CycleNodes(cycle) == DropLast(cycle)
selectVictim(cycle, txs) ==
  IF cycle = <<>> THEN NULL
  ELSE LET victims == SortByNum(CycleNodes(cycle))
       IN IF victims = <<>> THEN UNDEFINED ELSE victims[Len(victims)]

\* getResolutionStrategy: victim is victim?.id, undefined when there is none
getResolutionStrategy(cycle, txs) ==
  [strategy |-> "abort",
   victim |-> IF selectVictim(cycle, txs) = NULL THEN UNDEFINED ELSE selectVictim(cycle, txs),
   affectedTransactions |-> IF cycle = <<>> THEN <<>> ELSE DropLast(cycle),
   cycle |-> cycle]

\* resolveDeadlock (demo): only the demo adjacency list has removeNode, and no
\* demo class has removeEdge, so the fallback loop removes nothing
HasRemoveNode(g) == g.kind = "demoList"
HasRemoveEdge(g) == g.kind \in {"adjacencyList", "adjacencyMatrix", "hashMapSets"}
RECURSIVE RemoveIncoming(_, _, _)
RemoveIncoming(g, ns, victim) ==
  IF ns = <<>> THEN g
  ELSE LET n == Head(ns)
       IN RemoveIncoming(IF Includes(getNeighbors(g, n), victim) /\ HasRemoveEdge(g)
                         THEN removeEdge(g, n, victim) ELSE g,
                         Tail(ns), victim)
\* returns the graph afterwards, the cycle detected first, the victim and the
\* cycle of the DFS re-run
\* the two early returns (no cycle, no victim) leave the graph as it is
Unresolved(g, detect) ==
  [g |-> g, cycle |-> detect.cycle, victim |-> NULL, post |-> detect.cycle]
\* typeof wfg.removeNode === 'function' ? removeNode : the fallback loop
RemoveVictim(g, victim) ==
  IF HasRemoveNode(g) THEN DL_removeNode(g, victim)
  ELSE RemoveIncoming(g, getNodes(g), victim)
\* const postDFS = dfsDetectCycle(wfg) on the graph after the removal
Rerun(g2, detect, victim) ==
  [g |-> g2, cycle |-> detect.cycle, victim |-> victim, post |-> dfsDetectCycle(g2).cycle]
ResolveVictim(g, detect, victim) ==
  IF victim = NULL THEN Unresolved(g, detect)
  ELSE Rerun(RemoveVictim(g, victim), detect, victim)
ResolveCycle(g, detect) ==
  IF IsNull(detect.cycle) \/ Val(detect.cycle) = <<>> THEN Unresolved(g, detect)
  ELSE ResolveVictim(g, detect, bfsVictimSelection(g).victim)
resolveDeadlock(g) == ResolveCycle(g, dfsDetectCycle(g))

\* ------------------------------------------------- transactionManager.js
\* The manager is the record
\*   transactions : id -> [status, heldLocks (array), waitingFor]
\*   resources    : id -> [lockedBy, waitQueue (array)]
\*   wfg          : the graph object the factory built
\*   metrics      : [operations, conflicts, memoryUsage, deadlocksDetected]

TransactionManager(dataStructureType) ==
  [transactions |-> [t \in TxIds |-> [status |-> "active", heldLocks |-> <<>>, waitingFor |-> NULL]],
   resources |-> [r \in ResIds |-> [lockedBy |-> NULL, waitQueue |-> <<>>]],
   wfg |-> createWFG(dataStructureType, TxOrder),
   metrics |-> [operations |-> 0, conflicts |-> 0, memoryUsage |-> 0, deadlocksDetected |-> 0]]

Ret(success, message, updated) == [success |-> success, message |-> message, updated |-> updated]

updateMetrics(M) ==
  [M EXCEPT !.metrics.operations = @ + 1,
            !.metrics.memoryUsage = estimateMemoryUsage(M.wfg)]

\* removes every outgoing edge of txId, one removeEdge per neighbour
RECURSIVE RemoveEach(_, _, _)
RemoveEach(g, txId, nbs) ==
  IF nbs = <<>> THEN g ELSE RemoveEach(removeEdge(g, txId, Head(nbs)), txId, Tail(nbs))
removeWaitEdges_keep(M, txId) == M
removeWaitEdges(M, txId) ==
  [M EXCEPT !.wfg = RemoveEach(M.wfg, txId, getNeighbors(M.wfg, txId))]

\* the body is empty in the source (a TODO)
removeWaitEdgesForResource(M, resId) == M

\* tx.status !== 'active' && tx.status !== 'waiting' rejects the call
CanAcquire_anyStatus(status) == TRUE
CanAcquire(status) == status = "active" \/ status = "waiting"

\* if (!res.waitQueue.includes(txId)) res.waitQueue.push(txId)
Enqueue_noDedup(waitQueue, txId) == Append(waitQueue, txId)
Enqueue(waitQueue, txId) == IF Includes(waitQueue, txId) THEN waitQueue ELSE Append(waitQueue, txId)

AlreadyHolds_never(tx, resId) == FALSE
\* if (tx.heldLocks.includes(resId)): nothing to do
AlreadyHolds(tx, resId) == Includes(tx.heldLocks, resId)

Granted_stillWaiting(tx, resId) == [tx EXCEPT !.heldLocks = Append(@, resId)]
\* tx.heldLocks.push(resId); tx.status = 'active'; tx.waitingFor = null
Granted(tx, resId) ==
  [tx EXCEPT !.heldLocks = Append(@, resId), !.status = "active", !.waitingFor = NULL]
acquireLock(M, txId, resId) ==
  IF txId \notin TxIds \/ resId \notin ResIds
  THEN [m |-> M, ret |-> Ret(FALSE, "Invalid transaction or resource", FALSE)]
  ELSE
  LET tx == M.transactions[txId]
      res == M.resources[resId]
  IN
  IF ~CanAcquire(tx.status)
  THEN [m |-> M, ret |-> Ret(FALSE, "Transaction is " \o tx.status, FALSE)]
  ELSE IF AlreadyHolds(tx, resId)
  THEN [m |-> M, ret |-> Ret(TRUE, "already holds", FALSE)]
  ELSE IF res.lockedBy = NULL
  THEN \* resource is free: grant lock
    LET M1 == [M EXCEPT !.resources[resId].lockedBy = txId,
                        !.transactions[txId] = Granted(@, resId)]
        M2 == removeWaitEdges(M1, txId)
    IN [m |-> updateMetrics(M2), ret |-> Ret(TRUE, "Lock granted", TRUE)]
  ELSE \* resource is locked: add to wait queue
    LET M1 == [M EXCEPT !.resources[resId].waitQueue = Enqueue(@, txId),
                        !.transactions[txId].waitingFor = resId,
                        !.transactions[txId].status = "waiting"]
        holderTxId == res.lockedBy
        M2 == [M1 EXCEPT !.wfg = addEdge(M1.wfg, txId, holderTxId)]
        M3 == [M2 EXCEPT !.metrics.conflicts = @ + 1]
    IN [m |-> updateMetrics(M3), ret |-> Ret(FALSE, "Waiting", TRUE)]

AddEach_none(g, waiters, nextTxId) == g
\* res.waitQueue.forEach(waiterId => this.wfg.addEdge(waiterId, nextTxId))
RECURSIVE AddEach(_, _, _)
AddEach(g, waiters, nextTxId) ==
  IF waiters = <<>> THEN g
  ELSE AddEach(addEdge(g, Head(waiters), nextTxId), Tail(waiters), nextTxId)

Shift_dropNext(queue) ==
  [head |-> Head(queue), rest |-> IF Len(queue) > 1 THEN Tail(Tail(queue)) ELSE <<>>]
Shift_peek(queue) == [head |-> Head(queue), rest |-> queue]
Shift_last(queue) == [head |-> queue[Len(queue)], rest |-> DropLast(queue)]
\* Array.prototype.shift: the removed first element and what is left
Shift(queue) == [head |-> Head(queue), rest |-> Tail(queue)]
releaseLock(M, txId, resId) ==
  IF txId \notin TxIds \/ resId \notin ResIds
  THEN [m |-> M, ret |-> Ret(FALSE, "Invalid transaction or resource", FALSE)]
  ELSE IF M.resources[resId].lockedBy # txId
  THEN [m |-> M, ret |-> Ret(FALSE, "does not hold", FALSE)]
  ELSE
  LET M1 == [M EXCEPT !.resources[resId].lockedBy = NULL,
                      !.transactions[txId].heldLocks = Without(@, resId)]
      M2 == removeWaitEdgesForResource(M1, resId)
      queue == M2.resources[resId].waitQueue
      M3 == IF Len(queue) > 0
            THEN LET nextTxId == Shift(queue).head
                     rest == Shift(queue).rest
                     G1 == [M2 EXCEPT !.resources[resId].waitQueue = rest,
                                      !.resources[resId].lockedBy = nextTxId,
                                      !.transactions[nextTxId].heldLocks = Append(@, resId),
                                      !.transactions[nextTxId].status = "active",
                                      !.transactions[nextTxId].waitingFor = NULL]
                     G2 == removeWaitEdges(G1, nextTxId)
                 IN IF Len(rest) > 0
                    THEN [G2 EXCEPT !.wfg = AddEach(G2.wfg, rest, nextTxId)]
                    ELSE G2
            ELSE M2
  IN [m |-> updateMetrics(M3), ret |-> Ret(TRUE, "Lock released", TRUE)]

ReleaseEach_skip(M, txId, held) == M
\* tx.heldLocks.forEach(resId => this.releaseLock(txId, resId)) over the array
\* as it was when the loop started (releaseLock replaces it, never edits it)
RECURSIVE ReleaseEach(_, _, _)
ReleaseEach(M, txId, held) ==
  IF held = <<>> THEN M
  ELSE ReleaseEach(releaseLock(M, txId, Head(held)).m, txId, Tail(held))

\* this.wfg.getNodes().forEach(node => this.wfg.removeEdge(node, txId))
RemoveInto_skip(g, ns, txId) == g
RECURSIVE RemoveInto(_, _, _)
RemoveInto(g, ns, txId) ==
  IF ns = <<>> THEN g ELSE RemoveInto(removeEdge(g, Head(ns), txId), Tail(ns), txId)

LeaveQueues_stay(res, txId) == res
\* this.resources.forEach(res => res.waitQueue = res.waitQueue.filter(id => id !== txId))
LeaveQueues(res, txId) == [r \in ResIds |-> [res[r] EXCEPT !.waitQueue = Without(@, txId)]]
abortTransaction_statusOnly(M, txId) ==
  IF txId \notin TxIds
  THEN [m |-> M, ret |-> Ret(FALSE, "Invalid transaction", FALSE)]
  ELSE [m |-> [M EXCEPT !.transactions[txId].status = "aborted"],
        ret |-> Ret(TRUE, "aborted", FALSE)]
abortTransaction(M, txId) ==
  IF txId \notin TxIds
  THEN [m |-> M, ret |-> Ret(FALSE, "Invalid transaction", FALSE)]
  ELSE
  LET M1 == [M EXCEPT !.transactions[txId].status = "aborted"]
      M2 == ReleaseEach(M1, txId, M1.transactions[txId].heldLocks)
      M3 == [M2 EXCEPT !.transactions[txId].heldLocks = <<>>]
      M4 == [M3 EXCEPT !.resources = LeaveQueues(M3.resources, txId),
                       !.transactions[txId].waitingFor = NULL]
      M5 == [M4 EXCEPT !.wfg = RemoveInto(M4.wfg, getNodes(M4.wfg), txId)]
      M6 == removeWaitEdges(M5, txId)
  IN [m |-> M6, ret |-> Ret(TRUE, "aborted", FALSE)]

\* TransactionManager.reset(): every transaction 'active' with no locks, every
\* resource free with an empty queue, the graph cleared, the metrics zeroed
reset(M) ==
  [transactions |-> [t \in DOMAIN M.transactions |->
                       [M.transactions[t] EXCEPT !.status = "active",
                                                 !.heldLocks = <<>>,
                                                 !.waitingFor = NULL]],
   resources |-> [r \in DOMAIN M.resources |->
                    [M.resources[r] EXCEPT !.lockedBy = NULL, !.waitQueue = <<>>]],
   wfg |-> clear(M.wfg),
   metrics |-> [operations |-> 0, conflicts |-> 0, memoryUsage |-> 0, deadlocksDetected |-> 0]]

\* TransactionManager.detectDeadlock(): the manager afterwards and the result of
\* detectDeadlock(this.wfg)
CountCycles_clearing(M, out) ==
  [M EXCEPT !.wfg = clear(@), !.metrics.deadlocksDetected = @ + Len(out.cycles)]
CountCycles_perCall(M, out) ==
  IF out.hasCycle THEN [M EXCEPT !.metrics.deadlocksDetected = @ + 1] ELSE M
CountCycles(M, out) ==
  IF out.hasCycle THEN [M EXCEPT !.metrics.deadlocksDetected = @ + Len(out.cycles)] ELSE M
TM_detectDeadlock(M) ==
  LET out == detectDeadlock(M.wfg)
  IN [m |-> CountCycles(M, out), out |-> out]

\* the resolution loop of a caller: detectDeadlock(); while it reports a cycle,
\* abortTransaction(getResolutionStrategy(first cycle).victim) and detect
\* again. steps records each victim with the cycle it was picked for and the
\* status it had; the loop is cut off after one abort more than there are
\* transactions.
RECURSIVE ResolveLoop(_, _)
ResolveLoop(M, steps) ==
  LET detected == TM_detectDeadlock(M)
  IN IF ~detected.out.hasCycle \/ Len(steps) > Len(TxOrder)
     THEN [m |-> detected.m, steps |-> steps, hasCycle |-> detected.out.hasCycle]
     ELSE LET cycle == detected.out.cycles[1]
              victim == getResolutionStrategy(cycle, detected.m.transactions).victim
              status == IF victim \in TxIds THEN detected.m.transactions[victim].status
                        ELSE UNDEFINED
          IN ResolveLoop(abortTransaction(detected.m, victim).m,
                         Append(steps, [victim |-> victim, cycle |-> cycle, status |-> status]))

\* ------------------------------------------------------------ the state

VARIABLES
  transactions,   \* this.transactions
  resources,      \* this.resources
  wfg,            \* this.wfg
  metrics,        \* this.metrics
  last,           \* what the latest acquire / release / abort call returned; a call
                  \* that returns nothing is recorded by its name
  graph,          \* a graph object used on its own (the demo's active structure)
  result,         \* what the latest run of an algorithm on the current graph returned
  reps            \* one object per createWFG type, all given the same calls: the
                  \* graph itself, or a manager built on it

mgrVars == <<transactions, resources, wfg, metrics, last>>
graphVars == <<graph, result>>
vars == <<transactions, resources, wfg, metrics, last, graph, result, reps>>

Mgr == [transactions |-> transactions, resources |-> resources, wfg |-> wfg, metrics |-> metrics]

NoResult == [alg |-> "none"]

\* the three representations as createWFG builds them from the same node list
NewReps(nodes) == [type \in DSTypes |-> createWFG(type, nodes)]

\* ------------------------------------------------ the manager's calls

Init ==
  /\ \E type \in DSTypes :
       LET M == TransactionManager(type)
       IN /\ transactions = M.transactions
          /\ resources = M.resources
          /\ wfg = M.wfg
          /\ metrics = M.metrics
  /\ last = Ret(TRUE, "constructed", FALSE)
  /\ graph = DL_new
  /\ result = NoResult
  /\ reps = NewReps(<<>>)

Becomes(r) ==
  /\ r.m.metrics.operations <= MaxOperations
  /\ transactions' = r.m.transactions
  /\ resources' = r.m.resources
  /\ wfg' = r.m.wfg
  /\ metrics' = r.m.metrics
  /\ last' = r.ret
  /\ result' = NoResult
  /\ UNCHANGED graph
  /\ UNCHANGED reps

\* the ids a caller may pass, known or not
TxArgs == TxIds \cup {UnknownTx}
ResArgs == ResIds \cup {UnknownRes}

AcquireLock(txId, resId) == Becomes(acquireLock(Mgr, txId, resId))

ReleaseLock(txId, resId) == Becomes(releaseLock(Mgr, txId, resId))

AbortTransaction(txId) == Becomes(abortTransaction(Mgr, txId))

DetectDeadlock ==
  LET r == TM_detectDeadlock(Mgr)
  IN /\ r.m.metrics.deadlocksDetected <= MaxDeadlocks
     /\ transactions' = r.m.transactions
     /\ resources' = r.m.resources
     /\ wfg' = r.m.wfg
     /\ metrics' = r.m.metrics
     /\ result' = [alg |-> "TransactionManager.detectDeadlock", out |-> r.out]
     /\ UNCHANGED <<last, graph, reps>>

\* the calls that return nothing
Called(method) == Ret(TRUE, method, FALSE)

Reset == Becomes([m |-> reset(Mgr), ret |-> Called("reset")])

\* the two helpers of the calls above, called on their own; such calls stop
\* after MaxHelperOperations counted operations
UpdateMetrics ==
  /\ metrics.operations < MaxHelperOperations
  /\ Becomes([m |-> updateMetrics(Mgr), ret |-> Called("updateMetrics")])

RemoveWaitEdges(txId) ==
  /\ metrics.operations < MaxHelperOperations
  /\ Becomes([m |-> removeWaitEdges(Mgr, txId), ret |-> Called("removeWaitEdges")])

\* the calls of the manager's interface (acquire / release / abort / detect)
\* and reset
NextCalls ==
  \/ \E txId \in TxArgs, resId \in ResArgs : AcquireLock(txId, resId)
  \/ \E txId \in TxArgs, resId \in ResArgs : ReleaseLock(txId, resId)
  \/ \E txId \in TxArgs : AbortTransaction(txId)
  \/ DetectDeadlock
  \/ Reset

SpecCalls == Init /\ [][NextCalls]_vars

\* every method of the class that changes the manager
Next ==
  \/ NextCalls
  \/ UpdateMetrics
  \/ \E txId \in TxArgs : RemoveWaitEdges(txId)

Spec == Init /\ [][Next]_vars

\* ---------------- the manager's calls with known ids, adjacency-list manager
\* Longer call sequences than in Spec: the caller passes only ids of the
\* manager, and the manager is built on the default representation.

InitLocks ==
  /\ LET M == TransactionManager("adjacencyList")
     IN /\ transactions = M.transactions
        /\ resources = M.resources
        /\ wfg = M.wfg
        /\ metrics = M.metrics
  /\ last = Ret(TRUE, "constructed", FALSE)
  /\ graph = DL_new
  /\ result = NoResult
  /\ reps = NewReps(<<>>)

Steps(r) ==
  /\ r.m.metrics.operations <= MaxLockOperations
  /\ transactions' = r.m.transactions
  /\ resources' = r.m.resources
  /\ wfg' = r.m.wfg
  /\ metrics' = r.m.metrics
  /\ last' = r.ret
  /\ UNCHANGED <<graph, result, reps>>

LockAcquire(txId, resId) == Steps(acquireLock(Mgr, txId, resId))

LockRelease(txId, resId) == Steps(releaseLock(Mgr, txId, resId))

LockAbort(txId) == Steps(abortTransaction(Mgr, txId))

LockReset == Steps([m |-> reset(Mgr), ret |-> Called("reset")])

NextLocks ==
  \/ \E txId \in TxIds, resId \in ResIds : LockAcquire(txId, resId)
  \/ \E txId \in TxIds, resId \in ResIds : LockRelease(txId, resId)
  \/ \E txId \in TxIds : LockAbort(txId)
  \/ LockReset

SpecLocks == InitLocks /\ [][NextLocks]_vars

\* ------------------ the manager's calls when every holder releases in time
\* acquireLock calls stop after MaxFairOperations counted operations; a
\* release, an abort or a reset is possible at any time, and a transaction that holds
\* a resource does not keep it for ever. A call that is refused or has nothing
\* to do leaves the manager as it is and is no step.
Proceeds(r) ==
  /\ r.ret.updated \/ r.m.transactions # transactions
  /\ transactions' = r.m.transactions
  /\ resources' = r.m.resources
  /\ wfg' = r.m.wfg
  /\ metrics' = r.m.metrics
  /\ last' = r.ret
  /\ UNCHANGED <<graph, result, reps>>

FairAcquire(txId, resId) ==
  /\ metrics.operations < MaxFairOperations
  /\ Proceeds(acquireLock(Mgr, txId, resId))

FairRelease(txId, resId) == Proceeds(releaseLock(Mgr, txId, resId))

FairAbort(txId) == Proceeds(abortTransaction(Mgr, txId))

\* reset() of a manager that is not as constructed
FairReset ==
  /\ reset(Mgr) # Mgr
  /\ transactions' = reset(Mgr).transactions
  /\ resources' = reset(Mgr).resources
  /\ wfg' = reset(Mgr).wfg
  /\ metrics' = reset(Mgr).metrics
  /\ last' = Called("reset")
  /\ UNCHANGED <<graph, result, reps>>

NextFair ==
  \/ \E txId \in TxIds, resId \in ResIds : FairAcquire(txId, resId)
  \/ \E txId \in TxIds, resId \in ResIds : FairRelease(txId, resId)
  \/ \E txId \in TxIds : FairAbort(txId)
  \/ FairReset

\* the release of resId by the transaction that holds it
HolderReleases(resId) ==
  \E txId \in TxIds :
    /\ resources[resId].lockedBy = txId
    /\ \E r \in {releaseLock(Mgr, txId, resId)} : Proceeds(r)

\* HolderReleases(resId) can happen exactly when resId is held (EnabledWhenHeld
\* below)
Held(resId) == resources[resId].lockedBy \in TxIds

\* weak fairness of HolderReleases(resId), with Held(resId) for its ENABLED: a
\* resource held from some point on is released again and again
Fairness ==
  \A resId \in ResIds : <>[]Held(resId) => []<><<HolderReleases(resId)>>_vars

SpecFair == InitLocks /\ [][NextFair]_vars /\ Fairness

\* ------------- the manager's calls on transactions constructed with a status
\* The constructor keeps the status a transaction is given (tx.status ||
\* 'active'), whichever of the four statuses it is.
InitialStatuses == {"active", "waiting", "blocked", "aborted"}

ConstructedWith(dataStructureType, status) ==
  [TransactionManager(dataStructureType) EXCEPT
     !.transactions = [t \in TxIds |-> [@[t] EXCEPT !.status = status[t]]]]

InitStatus ==
  /\ \E status \in [TxIds -> InitialStatuses] :
       LET M == ConstructedWith("adjacencyList", status)
       IN /\ transactions = M.transactions
          /\ resources = M.resources
          /\ wfg = M.wfg
          /\ metrics = M.metrics
  /\ last = Ret(TRUE, "constructed", FALSE)
  /\ graph = DL_new
  /\ result = NoResult
  /\ reps = NewReps(<<>>)

SpecStatus == InitStatus /\ [][NextLocks]_vars

\* ------------------------------------- graphs built and analysed on their own

GraphKinds == {"adjacencyList", "adjacencyMatrix", "hashMapSets", "demoList", "demoMatrix", "demoHashMap"}

NewGraph(kind) ==
  CASE kind \in DSTypes -> createWFG(kind, <<>>)
    [] kind = "demoList" -> DL_new
    [] kind = "demoMatrix" -> DM_new
    [] kind = "demoHashMap" -> DH_new

InitGraph ==
  /\ LET M == TransactionManager("adjacencyList")
     IN /\ transactions = M.transactions
        /\ resources = M.resources
        /\ wfg = M.wfg
        /\ metrics = M.metrics
  /\ last = Ret(TRUE, "constructed", FALSE)
  /\ graph \in {NewGraph(k) : k \in GraphKinds}
  /\ result = NoResult
  /\ reps = NewReps(<<>>)

Mutates(g) ==
  /\ graph' = g
  /\ result' = NoResult
  /\ UNCHANGED mgrVars
  /\ UNCHANGED reps

Returns(r) ==
  /\ result' = r
  /\ UNCHANGED graph
  /\ UNCHANGED mgrVars
  /\ UNCHANGED reps

GraphAddNode(node) ==
  /\ graph.kind \in {"demoList", "demoMatrix", "demoHashMap", "adjacencyMatrix"}
  /\ Mutates(CASE graph.kind = "demoList" -> DL_addNode(graph, node)
               [] graph.kind = "demoMatrix" -> DM_addNode(graph, node)
               [] graph.kind = "demoHashMap" -> DH_addNode(graph, node)
               [] graph.kind = "adjacencyMatrix" -> AM_addNode(graph, node))

GraphAddEdge(from, to) ==
  /\ Len(getAllEdges(graph)) < MaxEdges
  /\ Mutates(addEdge(graph, from, to))

GraphRemoveEdge(from, to) ==
  /\ graph.kind \in DSTypes
  /\ Mutates(removeEdge(graph, from, to))

GraphRemoveNode(node) ==
  /\ graph.kind = "demoList"
  /\ Mutates(DL_removeNode(graph, node))

GraphClear == Mutates(clear(graph))

RunDfsDetectCycle == Returns([alg |-> "dfsDetectCycle", out |-> dfsDetectCycle(graph)])

RunDetectDeadlock == Returns([alg |-> "detectDeadlock", out |-> detectDeadlock(graph)])

RunDetectDeadlockTarjan == Returns([alg |-> "detectDeadlockTarjan", out |-> detectDeadlockTarjan(graph)])

\* the demo resolves on its active structure, one of the three demo classes
Resolved(r) ==
  /\ graph' = r.g
  /\ result' = [alg |-> "resolveDeadlock", cycle |-> r.cycle, victim |-> r.victim,
                post |-> r.post]
ResolveDeadlock ==
  /\ graph.kind \in {"demoList", "demoMatrix", "demoHashMap"}
  /\ Resolved(resolveDeadlock(graph))
  /\ UNCHANGED mgrVars
  /\ UNCHANGED reps

RunComputeConflictColors ==
  Returns([alg |-> "computeConflictColorsByReachability",
           out |-> computeConflictColorsByReachability(graph)])

NextGraph ==
  \/ \E node \in TxIds : GraphAddNode(node)
  \/ \E from \in TxIds, to \in TxIds : GraphAddEdge(from, to)
  \/ \E from \in TxIds, to \in TxIds : GraphRemoveEdge(from, to)
  \/ \E node \in TxIds : GraphRemoveNode(node)
  \/ GraphClear
  \/ RunDfsDetectCycle
  \/ RunDetectDeadlock
  \/ RunDetectDeadlockTarjan
  \/ RunComputeConflictColors
  \/ ResolveDeadlock

SpecGraph == InitGraph /\ [][NextGraph]_vars

\* --------------------- wait-for graphs over four transactions, detection
\* A fourth transaction makes two deadlock sets possible. The graph is the
\* default representation, built by addEdge between distinct transactions as
\* the manager builds it (a transaction never waits on itself).

NodeIds == TxIds \cup {"T4"}

NewWaitGraph == [createWFG("adjacencyList", <<>>) EXCEPT !.adj = [n \in NodeIds |-> <<>>]]

InitWait ==
  /\ LET M == TransactionManager("adjacencyList")
     IN /\ transactions = M.transactions
        /\ resources = M.resources
        /\ wfg = M.wfg
        /\ metrics = M.metrics
  /\ last = Ret(TRUE, "constructed", FALSE)
  /\ graph = NewWaitGraph
  /\ result = NoResult
  /\ reps = NewReps(<<>>)

WaitAddEdge(from, to) ==
  /\ from # to
  /\ Len(getAllEdges(graph)) < MaxWaitEdges
  /\ Mutates(addEdge(graph, from, to))

NextWait ==
  \/ \E from \in NodeIds, to \in NodeIds : WaitAddEdge(from, to)
  \/ RunDetectDeadlock
  \/ RunDetectDeadlockTarjan

SpecWait == InitWait /\ [][NextWait]_vars

\* ------------------------------------ victim selectors on given cycles
\* The cycle argument is any sequence of transaction ids up to MaxCycleLen;
\* the graph is one of a few demo graphs, built through addEdge.

RECURSIVE SeqsUpTo(_)
SeqsUpTo(n) ==
  IF n = 0 THEN {<<>>}
  ELSE LET shorter == SeqsUpTo(n - 1)
       IN shorter \cup {Append(c, t) : c \in {x \in shorter : Len(x) = n - 1}, t \in TxIds}
CycleArgs == SeqsUpTo(MaxCycleLen)

RECURSIVE AddEdges(_, _)
AddEdges(g, es) == IF es = <<>> THEN g ELSE AddEdges(addEdge(g, Head(es)[1], Head(es)[2]), Tail(es))
VictimEdgeLists ==
  { <<>>,
    << <<"T1", "T2">>, <<"T2", "T3">>, <<"T3", "T1">>, <<"T2", "T1">> >>,
    << <<"T1", "T2">>, <<"T2", "T2">> >> }

InitVictim ==
  /\ LET M == TransactionManager("adjacencyList")
     IN /\ transactions = M.transactions
        /\ resources = M.resources
        /\ wfg = M.wfg
        /\ metrics = M.metrics
  /\ last = Ret(TRUE, "constructed", FALSE)
  /\ graph \in {AddEdges(g, es) : g \in {DL_new, DM_new, DH_new}, es \in VictimEdgeLists}
  /\ result = NoResult
  /\ reps = NewReps(<<>>)

RunSelectVictimFromCycle(cycle) ==
  Returns([alg |-> "selectVictimFromCycle", cycle |-> cycle,
           victim |-> selectVictimFromCycle(graph, cycle)])

RunBfsVictimSelection ==
  Returns([alg |-> "bfsVictimSelection", out |-> bfsVictimSelection(graph)])

RunSelectVictim(cycle) ==
  Returns([alg |-> "selectVictim", cycle |-> cycle,
           victim |-> selectVictim(cycle, transactions)])

NextVictim ==
  \/ \E cycle \in CycleArgs : RunSelectVictimFromCycle(cycle)
  \/ RunBfsVictimSelection
  \/ \E cycle \in CycleArgs : RunSelectVictim(cycle)

SpecVictim == InitVictim /\ [][NextVictim]_vars

\* ------------- three managers, one per representation, given the same calls
\* reps[type] is the manager new TransactionManager(type, transactions,
\* resources) and what the calls made of it.
InitManagers ==
  /\ LET M == TransactionManager("adjacencyList")
     IN /\ transactions = M.transactions
        /\ resources = M.resources
        /\ wfg = M.wfg
        /\ metrics = M.metrics
  /\ last = Ret(TRUE, "constructed", FALSE)
  /\ graph = DL_new
  /\ result = NoResult
  /\ reps = [type \in DSTypes |-> TransactionManager(type)]

AllStep(rs) ==
  /\ \A type \in DSTypes : rs[type].m.metrics.operations <= MaxOperations
  /\ reps' = [type \in DSTypes |-> rs[type].m]
  /\ result' = NoResult
  /\ UNCHANGED mgrVars
  /\ UNCHANGED graph

ManagersAcquire(txId, resId) ==
  AllStep([type \in DSTypes |-> acquireLock(reps[type], txId, resId)])

ManagersRelease(txId, resId) ==
  AllStep([type \in DSTypes |-> releaseLock(reps[type], txId, resId)])

ManagersAbort(txId) ==
  AllStep([type \in DSTypes |-> abortTransaction(reps[type], txId)])

ManagersDetect ==
  /\ \A type \in DSTypes :
       TM_detectDeadlock(reps[type]).m.metrics.deadlocksDetected <= MaxDeadlocks
  /\ reps' = [type \in DSTypes |-> TM_detectDeadlock(reps[type]).m]
  /\ result' = [alg |-> "TransactionManager.detectDeadlock (each)",
                out |-> [type \in DSTypes |-> TM_detectDeadlock(reps[type]).out]]
  /\ UNCHANGED mgrVars
  /\ UNCHANGED graph

ManagersReset ==
  AllStep([type \in DSTypes |-> [m |-> reset(reps[type]), ret |-> Called("reset")]])

NextManagers ==
  \/ \E txId \in TxIds, resId \in ResIds : ManagersAcquire(txId, resId)
  \/ \E txId \in TxIds, resId \in ResIds : ManagersRelease(txId, resId)
  \/ \E txId \in TxIds : ManagersAbort(txId)
  \/ ManagersDetect
  \/ ManagersReset

SpecManagers == InitManagers /\ [][NextManagers]_vars

\* ------------- the demo's victim selectors on graphs built edge by edge
\* The graph is the demo's adjacency list; selectVictimFromCycle is handed
\* every node sequence of up to MaxSelectLen nodes.
InitSelect ==
  /\ LET M == TransactionManager("adjacencyList")
     IN /\ transactions = M.transactions
        /\ resources = M.resources
        /\ wfg = M.wfg
        /\ metrics = M.metrics
  /\ last = Ret(TRUE, "constructed", FALSE)
  /\ graph = DL_new
  /\ result = NoResult
  /\ reps = NewReps(<<>>)

SelectAddEdge(from, to) ==
  /\ Len(getAllEdges(graph)) < MaxSelectEdges
  /\ Mutates(addEdge(graph, from, to))

SelectArgs == SeqsUpTo(MaxSelectLen)

NextSelect ==
  \/ \E from \in TxIds, to \in TxIds : SelectAddEdge(from, to)
  \/ \E cycle \in SelectArgs : RunSelectVictimFromCycle(cycle)
  \/ RunBfsVictimSelection

SpecSelect == InitSelect /\ [][NextSelect]_vars

\* ------------------- the three representations driven by the same calls
\* The node list is the one the TransactionManager constructor hands to
\* createWFG (the transaction ids) or the empty default.

InitDiff ==
  /\ LET M == TransactionManager("adjacencyList")
     IN /\ transactions = M.transactions
        /\ resources = M.resources
        /\ wfg = M.wfg
        /\ metrics = M.metrics
  /\ last = Ret(TRUE, "constructed", FALSE)
  /\ graph = DL_new
  /\ result = NoResult
  /\ reps \in {NewReps(<<>>), NewReps(TxOrder)}

Applies(r) ==
  /\ reps' = r
  /\ UNCHANGED mgrVars
  /\ UNCHANGED graphVars

DiffAddEdge(from, to) ==
  /\ \A type \in DSTypes : Len(getAllEdges(reps[type])) < MaxEdges
  /\ Applies([type \in DSTypes |-> addEdge(reps[type], from, to)])

DiffRemoveEdge(from, to) == Applies([type \in DSTypes |-> removeEdge(reps[type], from, to)])

DiffClear == Applies([type \in DSTypes |-> clear(reps[type])])

NextDiff ==
  \/ \E from \in TxIds, to \in TxIds : DiffAddEdge(from, to)
  \/ \E from \in TxIds, to \in TxIds : DiffRemoveEdge(from, to)
  \/ DiffClear

SpecDiff == InitDiff /\ [][NextDiff]_vars

\* ================================================================ properties
\* Lock-table views used by the properties.
Status(t) == transactions[t].status
WaitingFor(t) == transactions[t].waitingFor
HeldLocks(t) == transactions[t].heldLocks
LockedBy(r) == resources[r].lockedBy
WaitQueue(r) == resources[r].waitQueue
OutEdges(g, t) == {b \in TxIds : <<t, b>> \in Edges(g)}

\* C1 (as claimed): every waiting transaction T with waitingFor = R has exactly
\* one outgoing wait-for edge, and it points to the current holder of R.
C1_HolderPointer ==
  \A t \in TxIds :
    (Status(t) = "waiting" /\ WaitingFor(t) # NULL)
      => OutEdges(wfg, t) = {LockedBy(WaitingFor(t))}

\* C2 (as claimed): the edge set is exactly the waits-for relation of the lock
\* tables: (A,B) is an edge iff A is waiting with waitingFor = R and R is held by B.
WaitsFor ==
  {<<a, b>> \in TxIds \X TxIds :
     Status(a) = "waiting" /\ WaitingFor(a) # NULL /\ LockedBy(WaitingFor(a)) = b}
C2_EdgesAreWaitsFor == Edges(wfg) = WaitsFor

\* what acquireLock(txId, resId) has done when it blocked behind the holder
BlockedBehindHolder(txId, resId) ==
  LET r == acquireLock(Mgr, txId, resId)
      H == LockedBy(resId)
  IN /\ r.m.resources[resId].waitQueue =
          (IF Includes(WaitQueue(resId), txId) THEN WaitQueue(resId)
           ELSE Append(WaitQueue(resId), txId))
     /\ r.m.transactions[txId].waitingFor = resId
     /\ r.m.transactions[txId].status = "waiting"
     /\ <<txId, H>> \in Edges(r.m.wfg)
     /\ r.m.resources[resId].lockedBy = H
     /\ r.m.metrics.conflicts = metrics.conflicts + 1

\* C3 (as claimed): in every reachable state, acquireLock by a non-aborted
\* transaction on a resource held by another transaction H queues tx at the tail
\* unless already queued, sets waitingFor and status, adds the edge tx -> H,
\* keeps the holder and adds one to metrics.conflicts.
C3_BlockingAcquire ==
  \A txId \in TxIds, resId \in ResIds :
    (Status(txId) # "aborted" /\ LockedBy(resId) \notin {NULL, txId})
    => BlockedBehindHolder(txId, resId)

\* what holds: the same for a transaction whose status is 'active' or 'waiting'
BlockingAcquireWhenServed ==
  \A txId \in TxIds, resId \in ResIds :
    (Status(txId) \in {"active", "waiting"} /\ LockedBy(resId) \notin {NULL, txId})
    => BlockedBehindHolder(txId, resId)
\* a blocked transaction that asked again for the resource it is queued on
C3_Witness ==
  /\ last = Ret(FALSE, "Waiting", TRUE)
  /\ metrics.conflicts >= 3
  /\ \E t \in TxIds, r \in ResIds :
       /\ Status(t) = "waiting" /\ WaitingFor(t) = r
       /\ Len(WaitQueue(r)) = 2 /\ WaitQueue(r)[2] = t
       /\ <<t, LockedBy(r)>> \in Edges(wfg)

\* C4: in every reachable state, a successful releaseLock on a resource with
\* waiters hands the resource to the head W of the queue in the same call (holder,
\* heldLocks, status, waitingFor, queue, no outgoing edge of W); with an empty
\* queue the resource becomes free.
C4_QueuePromotion ==
  \A txId \in TxIds, resId \in ResIds :
    LockedBy(resId) = txId
    => LET r == releaseLock(Mgr, txId, resId)
       IN /\ r.ret.success
          /\ ~Includes(r.m.transactions[txId].heldLocks, resId)
          /\ IF WaitQueue(resId) = <<>>
             THEN r.m.resources[resId].lockedBy = NULL
             ELSE LET W == Head(WaitQueue(resId))
                  IN /\ r.m.resources[resId].lockedBy = W
                     /\ Includes(r.m.transactions[W].heldLocks, resId)
                     /\ r.m.transactions[W].status = "active"
                     /\ r.m.transactions[W].waitingFor = NULL
                     /\ ~Includes(r.m.resources[resId].waitQueue, W)
                     /\ r.m.resources[resId].waitQueue = Tail(WaitQueue(resId))
                     /\ OutEdges(r.m.wfg, W) = {}
\* the last call released a lock two transactions were queued on: the head of the
\* queue holds it now and the second waiter is left
C4_Witness ==
  /\ last = Ret(TRUE, "Lock released", TRUE)
  /\ \E r \in ResIds :
       /\ Len(WaitQueue(r)) = 1
       /\ LockedBy(r) # NULL
       /\ Status(LockedBy(r)) = "active"
       /\ HeldLocks(LockedBy(r)) = <<r>>
       /\ \A q \in ResIds \ {r} : LockedBy(q) = NULL /\ WaitQueue(q) = <<>>
       /\ metrics.operations = 4
       /\ metrics.conflicts = 2

\* C5 (as claimed): after releaseLock(tx,res) promotes the head W, every waiter X
\* left in the queue has the edge X -> W and no longer the edge X -> tx (unless X
\* waits on another resource tx still holds).
C5_EdgeRepointing ==
  \A txId \in TxIds, resId \in ResIds :
    (LockedBy(resId) = txId /\ WaitQueue(resId) # <<>>)
    => LET r == releaseLock(Mgr, txId, resId)
           W == Head(WaitQueue(resId))
       IN \A X \in Range(r.m.resources[resId].waitQueue) :
            /\ <<X, W>> \in Edges(r.m.wfg)
            /\ (~\E q \in ResIds \ {resId} :
                    /\ r.m.resources[q].lockedBy = txId
                    /\ (r.m.transactions[X].waitingFor = q
                        \/ Includes(r.m.resources[q].waitQueue, X)))
                 => <<X, txId>> \notin Edges(r.m.wfg)

\* C6: in every reachable state, abortTransaction(tx) of a known transaction
\* leaves tx aborted, holding nothing, held by nothing, in no queue, waiting for
\* nothing, without incident edge; each resource it held went to the head of its
\* queue, or is free if that queue was empty.
C6_AbortPostcondition ==
  \A txId \in TxIds :
    LET r == abortTransaction(Mgr, txId)
    IN /\ r.ret.success
       /\ r.m.transactions[txId].status = "aborted"
       /\ r.m.transactions[txId].heldLocks = <<>>
       /\ \A q \in ResIds : r.m.resources[q].lockedBy # txId
       /\ \A q \in ResIds : ~Includes(r.m.resources[q].waitQueue, txId)
       /\ r.m.transactions[txId].waitingFor = NULL
       /\ \A n \in TxIds : <<n, txId>> \notin Edges(r.m.wfg) /\ <<txId, n>> \notin Edges(r.m.wfg)
       /\ \A q \in ResIds :
            (LockedBy(q) = txId \/ Includes(HeldLocks(txId), q))
            => r.m.resources[q].lockedBy =
                 (IF WaitQueue(q) = <<>> THEN NULL ELSE Head(WaitQueue(q)))
\* an aborted transaction next to a resource that changed hands while a waiter is left
C6_Witness ==
  /\ last = Ret(TRUE, "aborted", FALSE)
  /\ \E t \in TxIds, r \in ResIds :
       /\ Status(t) = "aborted"
       /\ LockedBy(r) \notin {NULL, t}
       /\ Len(WaitQueue(r)) = 1
       /\ metrics.operations = 4
       /\ metrics.conflicts = 2

\* C7: in every reachable state the failing calls (unknown transaction or
\* resource, acquire by an aborted transaction, release of a resource the caller
\* does not hold, abort of an unknown id) report failure and leave the lock
\* tables and the graph as they were.
Rejected(r) ==
  /\ ~r.ret.success
  /\ r.m.transactions = transactions
  /\ r.m.resources = resources
  /\ r.m.wfg = wfg
C7_NoPartialMutation ==
  /\ \A txId \in TxArgs, resId \in ResArgs :
       /\ (txId \notin TxIds \/ resId \notin ResIds \/ Status(txId) = "aborted")
            => Rejected(acquireLock(Mgr, txId, resId))
       /\ (txId \notin TxIds \/ resId \notin ResIds \/ LockedBy(resId) # txId
             \/ ~Includes(HeldLocks(txId), resId))
            => Rejected(releaseLock(Mgr, txId, resId))
  /\ \A txId \in TxArgs \ TxIds : Rejected(abortTransaction(Mgr, txId))
\* an aborted transaction was refused a lock while other locks are held and queued for
C7_Witness ==
  /\ last = Ret(FALSE, "Transaction is aborted", FALSE)
  /\ \E r \in ResIds : LockedBy(r) # NULL /\ WaitQueue(r) # <<>>
  /\ \E r \in ResIds : LockedBy(r) = NULL

\* ---- graphs on their own: reachability recomputed from the edge set
Succ(g, S) == {b \in TxIds : \E a \in S : <<a, b>> \in Edges(g)}
RECURSIVE ReachSet(_, _)
ReachSet(g, S) == LET S2 == S \cup Succ(g, S) IN IF S2 = S THEN S ELSE ReachSet(g, S2)
\* reachable through one or more edges / through zero or more edges
ReachPlus(g, n) == ReachSet(g, Succ(g, {n}))
ReachStar(g, n) == ReachSet(g, {n})
HasDirectedCycle(g) == \E n \in TxIds : n \in ReachPlus(g, n)
NodeSet(g) == Range(getNodes(g))
\* the strongly connected component of n
Component(g, n) == {m \in NodeSet(g) : m \in ReachStar(g, n) /\ n \in ReachStar(g, m)}

\* C8: DFS detection reports a cycle (dfsDetectCycle: cycle != null;
\* detectDeadlock: hasCycle) if and only if the graph has a directed cycle.
C8_DfsIffCycle ==
  /\ result.alg = "dfsDetectCycle"
       => (~IsNull(result.out.cycle) <=> HasDirectedCycle(graph))
  /\ result.alg = "detectDeadlock"
       => (result.out.hasCycle <=> HasDirectedCycle(graph))
\* a cycle through three nodes was reported although the first root has none
C8_Witness ==
  /\ result.alg = "dfsDetectCycle"
  /\ ~IsNull(result.out.cycle)
  /\ Len(getNodes(graph)) = 3
  /\ getNodes(graph)[1] \notin ReachPlus(graph, getNodes(graph)[1])
  /\ Cardinality(Edges(graph)) = 4

\* C9: detectDeadlockTarjan returns in sccs a partition of getNodes() into the
\* strongly connected components, and deadlocks is the components of size > 1.
C9_TarjanSccs ==
  result.alg = "detectDeadlockTarjan"
  => LET sccs == result.out.sccs
         deadlocks == result.out.deadlocks
     IN /\ \A n \in NodeSet(graph) :
             Cardinality({i \in 1..Len(sccs) : Includes(sccs[i], n)}) = 1
        /\ \A i \in 1..Len(sccs) :
             /\ Cardinality(Range(sccs[i])) = Len(sccs[i])
             /\ \A a \in Range(sccs[i]) : Range(sccs[i]) = Component(graph, a)
        /\ {Range(deadlocks[i]) : i \in 1..Len(deadlocks)}
             = {C \in {Component(graph, n) : n \in NodeSet(graph)} : Cardinality(C) > 1}
        /\ Cardinality({Range(deadlocks[i]) : i \in 1..Len(deadlocks)}) = Len(deadlocks)
        /\ result.out.hasDeadlock = (\E n \in NodeSet(graph) : Cardinality(Component(graph, n)) > 1)
\* a component of two nodes next to a node on its own
C9_Witness ==
  /\ result.alg = "detectDeadlockTarjan"
  /\ Len(result.out.sccs) = 2
  /\ Len(result.out.deadlocks) = 1
  /\ Len(getNodes(graph)) = 3
  /\ Cardinality(Edges(graph)) = 4

\* C10 (as claimed): a cycle returned by dfsDetectCycle is closed (first = last),
\* is the DFS path of the current node from the back-edge target on, followed by
\* the target, and its consecutive pairs are edges; for T1->T2->T3->T1 it is a
\* rotation of [T1,T2,T3,T1].
VisitPath(trace, node) ==
  trace[CHOOSE i \in 1..Len(trace) : trace[i].type = "visit" /\ trace[i].node = node].path
ThreeCycle == {<<"T1", "T2">>, <<"T2", "T3">>, <<"T3", "T1">>}
C10_CycleIsClosedPathSuffix ==
  (result.alg = "dfsDetectCycle" /\ ~IsNull(result.out.cycle))
  => LET c == Val(result.out.cycle)
         trace == result.out.trace
         backEdge == trace[Len(trace) - 1]
         path == VisitPath(trace, backEdge.from)
     IN /\ c[1] = c[Len(c)]
        /\ c = Append(SliceFrom(path, IndexOf(path, backEdge.to)), backEdge.to)
        /\ \A i \in 1..(Len(c) - 1) : <<c[i], c[i + 1]>> \in Edges(graph)
        /\ Edges(graph) = ThreeCycle
             => c \in {<<"T1", "T2", "T3", "T1">>, <<"T2", "T3", "T1", "T2">>,
                       <<"T3", "T1", "T2", "T3">>}

\* C11 (as claimed): whatever addEdge / removeEdge / clear calls the three
\* representations built by createWFG are given, getNodes() is the same sequence
\* in all three and getNeighbors(id) is the same ordered sequence for every id.
C11_SameAnswers ==
  \A a \in DSTypes, b \in DSTypes :
    /\ getNodes(reps[a]) = getNodes(reps[b])
    /\ \A id \in TxIds : getNeighbors(reps[a], id) = getNeighbors(reps[b], id)

\* C12: in the result of computeConflictColorsByReachability every node of the
\* graph has a colour, and no two distinct nodes of the same colour are related
\* by reachability (recomputed from the edge set) in either direction.
C12_SafeBatches ==
  result.alg = "computeConflictColorsByReachability"
  => LET colors == result.out.colors
     IN /\ DOMAIN colors = NodeSet(graph)
        /\ \A a \in DOMAIN colors, b \in DOMAIN colors :
             (a # b /\ colors[a] = colors[b])
             => (b \notin ReachPlus(graph, a) /\ a \notin ReachPlus(graph, b))
\* a chain of three nodes: the ends are related only through the middle node,
\* and all three got different colours
C12_Witness ==
  /\ result.alg = "computeConflictColorsByReachability"
  /\ Cardinality(Edges(graph)) = 2
  /\ \E a \in TxIds, b \in TxIds, c \in TxIds :
       /\ Edges(graph) = {<<a, b>>, <<b, c>>} /\ a # b /\ b # c /\ a # c
       /\ Cardinality({result.out.colors[n] : n \in {a, b, c}}) = 3

\* C13: every victim selector returns, for a cycle (given, or detected by
\* bfsVictimSelection itself) that has a node, a node of that cycle, and
\* returns no victim only for a cycle without nodes or an absent one. The
\* nodes of the sequence handed to selectVictim are all its elements but the
\* last, which closes the cycle (cycle.slice(0, -1)).
C13_VictimInCycle ==
  /\ result.alg = "selectVictimFromCycle"
       => IF result.cycle = <<>> THEN result.victim = NULL
          ELSE Includes(result.cycle, result.victim)
  /\ result.alg = "selectVictim"
       => IF CycleNodes(result.cycle) = <<>> THEN result.victim \in {NULL, UNDEFINED}
          ELSE /\ Includes(CycleNodes(result.cycle), result.victim)
               /\ Includes(result.cycle, result.victim)
  /\ result.alg = "bfsVictimSelection"
       => IF IsNull(result.out.cycle) THEN result.out.victim = NULL
          ELSE Includes(Val(result.out.cycle), result.out.victim)
\* selectVictim was handed a closed cycle of three transactions that starts at
\* the oldest and picked the youngest, which is neither its first nor its last
\* element
C13_Witness ==
  /\ result.alg = "selectVictim"
  /\ Len(result.cycle) = 4
  /\ result.cycle[1] = result.cycle[4]
  /\ Cardinality(Range(result.cycle)) = 3
  /\ result.cycle[1] = "T1"
  /\ result.victim = "T3"

\* C14 (as claimed): after resolveDeadlock ran on a graph with a cycle, whichever
\* representation is the active one, the victim is not in getNodes(), no
\* getNeighbors(n) contains it, and the DFS re-run does not report the cycle
\* detected before.
C14_VictimRemoved ==
  (result.alg = "resolveDeadlock" /\ ~IsNull(result.cycle))
  => /\ result.victim # NULL
     /\ ~Includes(getNodes(graph), result.victim)
     /\ \A n \in TxIds : ~Includes(getNeighbors(graph, n), result.victim)
     /\ result.post # result.cycle
\* the same with the demo adjacency list as the active representation
ListVictimRemoved == graph.kind = "demoList" => C14_VictimRemoved

\* the managers any single call leaves behind, from the current state
AfterAnyCall ==
  {acquireLock(Mgr, t, r).m : t \in TxArgs, r \in ResArgs}
    \cup {releaseLock(Mgr, t, r).m : t \in TxArgs, r \in ResArgs}
    \cup {abortTransaction(Mgr, t).m : t \in TxArgs}
    \cup {TM_detectDeadlock(Mgr).m}
\* tx is aborted, holds nothing, is queued nowhere and has no incident edge
TerminalIn(M, tx) ==
  /\ M.transactions[tx].status = "aborted"
  /\ M.transactions[tx].heldLocks = <<>>
  /\ \A r \in ResIds : M.resources[r].lockedBy # tx /\ ~Includes(M.resources[r].waitQueue, tx)
  /\ \A n \in TxIds : <<tx, n>> \notin Edges(M.wfg) /\ <<n, tx>> \notin Edges(M.wfg)

\* C15: in every reachable state an aborted transaction holds no lock, is in no
\* wait queue and has no incident edge, and every acquireLock / releaseLock /
\* abortTransaction / detectDeadlock call from that state leaves it so; a
\* repeated abortTransaction succeeds and changes nothing.
C15_AbortedIsTerminal ==
  \A tx \in TxIds :
    Status(tx) = "aborted"
    => /\ TerminalIn(Mgr, tx)
       /\ \A M \in AfterAnyCall : TerminalIn(M, tx)
       /\ abortTransaction(Mgr, tx) = [m |-> Mgr, ret |-> Ret(TRUE, "aborted", FALSE)]
\* after the abort a transaction blocked on a held lock and a detection ran
C15_Witness ==
  /\ \E tx \in TxIds : Status(tx) = "aborted"
  /\ last = Ret(FALSE, "Waiting", TRUE)
  /\ result.alg = "TransactionManager.detectDeadlock"
  /\ metrics.operations = 3
  /\ metrics.conflicts = 1

\* C16: no cycle in a TransactionManager.detectDeadlock() result mentions an
\* aborted transaction (result is the detection run on the current state,
\* whatever calls came between the abort and the detection).
C16_NoAbortedInCycles ==
  result.alg = "TransactionManager.detectDeadlock"
  => \A i \in 1..Len(result.out.cycles), tx \in TxIds :
       Status(tx) = "aborted" => ~Includes(result.out.cycles[i], tx)
\* two transactions deadlocked on the two resources and a detection counted the
\* cycle; one of them was aborted, the other holds both locks now, and the
\* detection run afterwards reports no cycle
C16_Witness ==
  /\ result.alg = "TransactionManager.detectDeadlock"
  /\ ~result.out.hasCycle
  /\ metrics.deadlocksDetected >= 1
  /\ metrics.operations = 5
  /\ metrics.conflicts = 2
  /\ \E tx \in TxIds : Status(tx) = "aborted"
  /\ \A r \in ResIds : WaitQueue(r) = <<>> /\ LockedBy(r) # NULL

\* C17: TransactionManager.detectDeadlock() leaves every transaction, every
\* resource and the graph as they were; of the metrics only deadlocksDetected
\* may change.
C17_DetectionFrame ==
  LET r == TM_detectDeadlock(Mgr)
  IN /\ r.m.transactions = transactions
     /\ r.m.resources = resources
     /\ r.m.wfg = wfg
     /\ getNodes(r.m.wfg) = getNodes(wfg) /\ Edges(r.m.wfg) = Edges(wfg)
     /\ r.m.metrics = [metrics EXCEPT !.deadlocksDetected = r.m.metrics.deadlocksDetected]
\* a detection ran on a deadlocked state and counted its cycle a second time
C17_Witness ==
  /\ result.alg = "TransactionManager.detectDeadlock"
  /\ result.out.hasCycle
  /\ metrics.deadlocksDetected = 2
  /\ \E a \in TxIds, b \in TxIds :
       a # b /\ <<a, b>> \in Edges(wfg) /\ <<b, a>> \in Edges(wfg)
       /\ Status(a) = "waiting" /\ Status(b) = "waiting"

\* new keeps the entries of old that it still has in their order, at its front,
\* and whatever it has beyond them was not in old (arrivals go to the tail)
KeepsOrder(old, new) ==
  LET kept == SelectSeq(old, LAMBDA x : Includes(new, x))
  IN /\ Len(kept) <= Len(new)
     /\ SubSeq(new, 1, Len(kept)) = kept
     /\ \A i \in (Len(kept) + 1)..Len(new) : ~Includes(old, new[i])

\* C18: in every reachable state no wait queue holds a transaction twice and a
\* free resource has an empty queue (nobody is granted past the queue); every
\* call keeps the order of the transactions that stay queued and puts a newly
\* blocked one at the tail; a resource that changes hands while its queue is
\* non-empty goes to the head of the queue, which leaves the queue.
C18_FifoQueue ==
  \A r \in ResIds :
    /\ Cardinality(Range(WaitQueue(r))) = Len(WaitQueue(r))
    /\ LockedBy(r) = NULL => WaitQueue(r) = <<>>
    /\ \A M \in AfterAnyCall :
         /\ KeepsOrder(WaitQueue(r), M.resources[r].waitQueue)
         /\ (M.resources[r].lockedBy # LockedBy(r) /\ WaitQueue(r) # <<>>)
              => /\ M.resources[r].lockedBy = Head(WaitQueue(r))
                 /\ KeepsOrder(Tail(WaitQueue(r)), M.resources[r].waitQueue)
                 /\ ~Includes(M.resources[r].waitQueue, Head(WaitQueue(r)))
\* two transactions blocked on a held resource, one of them asked again, and the
\* release handed the resource to one of them while the other is still queued
C18_Witness ==
  /\ last = Ret(TRUE, "Lock released", TRUE)
  /\ metrics.operations = 5
  /\ metrics.conflicts = 3
  /\ \E r \in ResIds :
       /\ Len(WaitQueue(r)) = 1
       /\ LockedBy(r) # NULL
       /\ HeldLocks(LockedBy(r)) = <<r>>
       /\ \A q \in ResIds \ {r} : LockedBy(q) = NULL

\* what acquireLock(txId, resId) has done when it granted a free resource
GrantedAtOnce(txId, resId) ==
  LET r == acquireLock(Mgr, txId, resId)
  IN /\ r.ret.success
     /\ r.m.resources[resId].lockedBy = txId
     /\ r.m.resources[resId].waitQueue = WaitQueue(resId)
     /\ r.m.transactions[txId].heldLocks = Append(HeldLocks(txId), resId)
     /\ r.m.transactions[txId].status = "active"
     /\ r.m.transactions[txId].waitingFor = NULL
     /\ OutEdges(r.m.wfg, txId) = {}
\* acquireLock(txId, resId) succeeded and changed nothing
NothingToDo(txId, resId) ==
  LET r == acquireLock(Mgr, txId, resId)
  IN r.ret.success /\ r.m = Mgr

\* C19 (as claimed): in every reachable state, acquireLock by a non-aborted
\* transaction on a free resource succeeds, makes it the holder, appends the
\* resource to its heldLocks, sets status 'active' and waitingFor null and
\* leaves it no outgoing edge; acquireLock on a resource it already holds
\* succeeds and changes nothing.
C19_ImmediateGrant ==
  \A txId \in TxIds, resId \in ResIds :
    /\ (Status(txId) # "aborted" /\ LockedBy(resId) = NULL) => GrantedAtOnce(txId, resId)
    /\ Includes(HeldLocks(txId), resId) => NothingToDo(txId, resId)

\* what holds: the same for a transaction whose status is 'active' or 'waiting'
ImmediateGrantWhenServed ==
  \A txId \in TxIds, resId \in ResIds :
    /\ (Status(txId) \in {"active", "waiting"} /\ LockedBy(resId) = NULL)
         => GrantedAtOnce(txId, resId)
    /\ Includes(HeldLocks(txId), resId) => NothingToDo(txId, resId)
\* a transaction that was waiting on one resource took the free other one: it
\* is active with no outgoing edge while still in the first resource's queue
C19_Witness ==
  /\ last = Ret(TRUE, "Lock granted", TRUE)
  /\ \E tx \in TxIds, r \in ResIds, q \in ResIds :
       /\ r # q
       /\ LockedBy(r) = tx
       /\ Includes(WaitQueue(q), tx)
       /\ Status(tx) = "active"
       /\ WaitingFor(tx) = NULL
       /\ OutEdges(wfg, tx) = {}

\* how often x occurs in s
Count(s, x) == Cardinality({i \in 1..Len(s) : s[i] = x})

\* C20: for every graph of every representation and every A, B: after
\* addEdge(A,B), and after a second addEdge(A,B), getNeighbors(A) contains B
\* exactly once, getAllEdges() has exactly one A->B entry, A and B are in
\* getNodes(), and the second call changes nothing.
C20_AddEdgeIdempotent ==
  \A A \in TxIds, B \in TxIds :
    LET once == addEdge(graph, A, B)
        twice == addEdge(once, A, B)
    IN /\ \A g \in {once, twice} :
            /\ Count(getNeighbors(g, A), B) = 1
            /\ Count(getAllEdges(g), <<A, B>>) = 1
            /\ Includes(getNodes(g), A) /\ Includes(getNodes(g), B)
       /\ twice = once
\* a graph with three edges out of one node, one of them a self-loop, on which
\* the calls are made
C20_Witness ==
  /\ \E A \in TxIds : Len(getNeighbors(graph, A)) = 3 /\ Includes(getNeighbors(graph, A), A)
  /\ Len(getAllEdges(graph)) = 3
  /\ graph.kind = "adjacencyMatrix"

\* what the interface shows of an empty graph
ShowsEmpty(g) ==
  /\ getNodes(g) = <<>>
  /\ \A id \in TxIds : getNeighbors(g, id) = <<>>
  /\ getAllEdges(g) = <<>>
\* C21 (as claimed): in every representation clear() resets the graph to empty:
\* afterwards getNodes(), getNeighbors(id) for every id and getAllEdges() are
\* empty, whatever nodes and edges the graph had.
C21_ClearResets == ShowsEmpty(clear(graph))
\* what does hold: clear() removes every edge in every representation, and
\* every node in all of them but the adjacency matrix
ClearRemovesEdges ==
  /\ getAllEdges(clear(graph)) = <<>>
  /\ \A id \in TxIds : getNeighbors(clear(graph), id) = <<>>
  /\ graph.kind # "adjacencyMatrix" => ShowsEmpty(clear(graph))

\* C22: the demo adjacency list's removeNode(id) on a node of the graph returns
\* true, after which id is in neither getNodes() nor any getNeighbors(n), the
\* other nodes keep their order and every edge not incident to id is kept, none
\* added; on an id that is no node it returns false and changes nothing.
C22_RemoveNode ==
  graph.kind = "demoList"
  => \A id \in TxIds :
       LET after == DL_removeNode(graph, id)
           ret == DL_removeNodeReturns(graph, id)
       IN IF id \in NodeSet(graph)
          THEN /\ ret
               /\ ~Includes(getNodes(after), id)
               /\ \A n \in TxIds : ~Includes(getNeighbors(after, n), id)
               /\ getNodes(after) = Without(getNodes(graph), id)
               /\ Edges(after) = {e \in Edges(graph) : e[1] # id /\ e[2] # id}
               /\ \A n \in TxIds \ {id} :
                    getNeighbors(after, n) = Without(getNeighbors(graph, n), id)
          ELSE /\ ~ret
               /\ getNodes(after) = getNodes(graph)
               /\ getAllEdges(after) = getAllEdges(graph)
               /\ after = graph
\* a demo list of two nodes with all four edges between them (the node to
\* remove has a self-loop, an incoming and an outgoing edge, the other node a
\* self-loop that must stay), and a third id that is no node
C22_Witness ==
  /\ graph.kind = "demoList"
  /\ Len(getNodes(graph)) = 2
  /\ Len(getAllEdges(graph)) = 4
  /\ \E id \in TxIds : id \notin NodeSet(graph)

\* a closed node sequence each of whose consecutive pairs is an edge of g
GenuineCycle(g, cycle) ==
  /\ Len(cycle) >= 2
  /\ cycle[1] = cycle[Len(cycle)]
  /\ \A i \in 1..(Len(cycle) - 1) : <<cycle[i], cycle[i + 1]>> \in Edges(g)
NoSelfLoop(g) == \A t \in TxIds : <<t, t>> \notin Edges(g)
\* C23 (as claimed): on a graph without self-loops, every element of
\* detectDeadlock(wfg).cycles is a closed node sequence whose consecutive pairs
\* are edges of the graph, and every transaction of
\* getDeadlockedTransactions(cycles) lies in a strongly connected component of
\* more than one node.
C23_CyclesAreGenuine ==
  (result.alg = "detectDeadlock" /\ NoSelfLoop(graph))
  => /\ \A i \in 1..Len(result.out.cycles) : GenuineCycle(graph, result.out.cycles[i])
     /\ \A t \in Range(getDeadlockedTransactions(result.out.cycles)) :
          Cardinality(Component(graph, t)) > 1
\* what does hold: the cycle reported first is genuine
FirstCycleGenuine ==
  (result.alg = "detectDeadlock" /\ result.out.hasCycle)
  => GenuineCycle(graph, result.out.cycles[1])

\* a non-empty set of non-aborted transactions each waiting for a resource that
\* another member of the set holds
CircularWait ==
  \E S \in (SUBSET TxIds) \ {{}} :
    \A t \in S :
      /\ Status(t) # "aborted"
      /\ WaitingFor(t) # NULL
      /\ LockedBy(WaitingFor(t)) \in S \ {t}
\* C24 (as claimed): in every state reached by acquireLock / releaseLock /
\* abortTransaction calls, TransactionManager.detectDeadlock() returns hasCycle
\* only if the lock tables contain a circular wait.
C24_NoFalseDeadlock == TM_detectDeadlock(Mgr).out.hasCycle => CircularWait

\* C25: in every reachable state each transaction with waitingFor = R has the
\* edge to the holder of R, and whenever the lock tables contain a circular
\* wait TransactionManager.detectDeadlock() returns hasCycle.
C25_NoMissedDeadlock ==
  /\ \A t \in TxIds :
       WaitingFor(t) # NULL => <<t, LockedBy(WaitingFor(t))>> \in Edges(wfg)
  /\ CircularWait => TM_detectDeadlock(Mgr).out.hasCycle
\* two transactions wait for each other's resource, the third is queued behind
\* one of them, and the detection has just reported the cycle
C25_Witness ==
  /\ CircularWait
  /\ \A t \in TxIds : Status(t) = "waiting" /\ WaitingFor(t) # NULL
  /\ result.alg = "TransactionManager.detectDeadlock"
  /\ result.out.hasCycle
  /\ metrics.deadlocksDetected = 1

\* C26: in every reachable state res.lockedBy = T iff res is in T.heldLocks; no
\* resource is in the heldLocks of two transactions or twice in one; a held
\* resource is held by a transaction of the manager that is not aborted.
C26_ExclusiveLocks ==
  /\ \A r \in ResIds, t \in TxIds : LockedBy(r) = t <=> Includes(HeldLocks(t), r)
  /\ \A r \in ResIds : Cardinality({t \in TxIds : Includes(HeldLocks(t), r)}) <= 1
  /\ \A r \in ResIds, t \in TxIds : Count(HeldLocks(t), r) <= 1
  /\ \A r \in ResIds :
       LockedBy(r) # NULL => LockedBy(r) \in TxIds /\ Status(LockedBy(r)) # "aborted"
\* a transaction that came to hold both resources, the second by promotion
\* from the queue after the holder was aborted, while another one still waits
C26_Witness ==
  /\ last = Ret(TRUE, "aborted", FALSE)
  /\ \E t \in TxIds, u \in TxIds, v \in TxIds :
       /\ Status(u) = "aborted"
       /\ HeldLocks(t) = <<"R2", "R1">>
       /\ WaitQueue("R1") = <<v>>
       /\ LockedBy("R1") = t /\ LockedBy("R2") = t

\* C27: in every reachable state a resource with a non-empty waitQueue has a
\* holder, the holder is not aborted and is not in that queue.
C27_NoLostWakeup ==
  \A r \in ResIds :
    WaitQueue(r) # <<>>
    => /\ LockedBy(r) # NULL
       /\ Status(LockedBy(r)) # "aborted"
       /\ ~Includes(WaitQueue(r), LockedBy(r))
\* the holder of a resource with two waiters was aborted: the first waiter
\* holds it now and the second is still queued
C27_Witness ==
  /\ last = Ret(TRUE, "aborted", FALSE)
  /\ metrics.operations = 4
  /\ metrics.conflicts = 2
  /\ \E r \in ResIds :
       /\ Len(WaitQueue(r)) = 1
       /\ LockedBy(r) # NULL
       /\ Status(LockedBy(r)) = "active"
       /\ Status(WaitQueue(r)[1]) = "waiting"
       /\ \A q \in ResIds \ {r} : LockedBy(q) = NULL

\* C28 (as claimed): in every reachable state every member of a resource R's
\* waitQueue has status 'waiting' and waitingFor = R.
C28_QueueStatus ==
  \A r \in ResIds, t \in TxIds :
    Includes(WaitQueue(r), t) => Status(t) = "waiting" /\ WaitingFor(t) = r
\* what does hold: a queued transaction is not aborted, is queued once and
\* does not hold the resource; a transaction with waitingFor = R is in R's queue
QueueMembers ==
  /\ \A r \in ResIds, t \in TxIds :
       Includes(WaitQueue(r), t)
       => Status(t) # "aborted" /\ Count(WaitQueue(r), t) = 1 /\ LockedBy(r) # t
  /\ \A t \in TxIds :
       WaitingFor(t) # NULL => Status(t) = "waiting" /\ Includes(WaitQueue(WaitingFor(t)), t)

\* C29: in every reachable state of the manager the wait-for graph has no
\* self-loop edge (T,T).
C29_NoSelfWait == \A t \in TxIds : ~Includes(getNeighbors(wfg, t), t)
\* a holder asked again for the resource it was promoted to, while the waiter
\* left in the queue has its edge to that holder
C29_Witness ==
  /\ last = Ret(TRUE, "already holds", FALSE)
  /\ metrics.operations = 4
  /\ metrics.conflicts = 2
  /\ \E r \in ResIds :
       /\ Len(WaitQueue(r)) = 1
       /\ LockedBy(r) # NULL
       /\ <<WaitQueue(r)[1], LockedBy(r)>> \in Edges(wfg)
       /\ \A q \in ResIds \ {r} : LockedBy(q) = NULL

\* C30 (as claimed): for every strongly connected component of more than one
\* node (every entry of detectDeadlockTarjan(wfg).deadlocks) the cycles of
\* detectDeadlock(wfg) contain one whose nodes lie in that component, and
\* isTransactionDeadlocked is true for a member of it.
C30_AllDeadlocksDetected ==
  result.alg = "detectDeadlock"
  => LET deadlocks == detectDeadlockTarjan(graph).deadlocks
         cycles == result.out.cycles
     IN \A i \in 1..Len(deadlocks) :
          /\ \E j \in 1..Len(cycles) : Range(cycles[j]) \subseteq Range(deadlocks[i])
          /\ \E t \in Range(deadlocks[i]) : isTransactionDeadlocked(t, cycles)
\* what does hold: a graph with a deadlock set gets hasCycle, and the cycle
\* reported first lies in one deadlock set
SomeDeadlockDetected ==
  result.alg = "detectDeadlock"
  => LET deadlocks == detectDeadlockTarjan(graph).deadlocks
         cycles == result.out.cycles
     IN /\ result.out.hasCycle <=> Len(deadlocks) > 0
        /\ result.out.hasCycle
             => \E i \in 1..Len(deadlocks) : Range(cycles[1]) \subseteq Range(deadlocks[i])


\* C32: after any identical sequence of addEdge / removeEdge (and clear) calls
\* hasEdge(a, b) has the same value in the three representations for every
\* pair; in each representation hasEdge(a, b) is true exactly when b is in
\* getNeighbors(a) and exactly when (a, b) is in getAllEdges(); removeEdge of
\* an absent edge leaves the object as it was.
C32_HasEdgeAgrees ==
  \A a \in TxIds, b \in TxIds :
    /\ \A s \in DSTypes, t \in DSTypes :
         hasEdge(reps[s], a, b) = hasEdge(reps[t], a, b)
    /\ \A t \in DSTypes :
         /\ hasEdge(reps[t], a, b) <=> Includes(getNeighbors(reps[t], a), b)
         /\ hasEdge(reps[t], a, b) <=> Includes(getAllEdges(reps[t]), <<a, b>>)
         /\ ~hasEdge(reps[t], a, b) => removeEdge(reps[t], a, b) = reps[t]

\* an edge is present one way only, between nodes the list and the matrix
\* enumerate in different orders, and a third node is known with no edge
C32_Witness ==
  /\ getNodes(reps["adjacencyList"]) # getNodes(reps["adjacencyMatrix"])
  /\ \E a \in TxIds, b \in TxIds :
       /\ a # b
       /\ \A t \in DSTypes : hasEdge(reps[t], a, b) /\ ~hasEdge(reps[t], b, a)
  /\ \A t \in DSTypes : Len(getNodes(reps[t])) = 3 /\ Len(getAllEdges(reps[t])) = 2


\* C33 (as claimed): for a known transaction and resource, acquireLock refuses
\* the call because of the transaction's status only when that status is
\* 'aborted'; with any other status the call grants the lock, enqueues the
\* transaction or reports that it already holds the resource.
C33_RejectsOnlyTerminal ==
  \A txId \in TxIds, resId \in ResIds :
    Status(txId) # "aborted"
    => acquireLock(Mgr, txId, resId).ret
         \in {Ret(TRUE, "Lock granted", TRUE), Ret(FALSE, "Waiting", TRUE),
              Ret(TRUE, "already holds", FALSE)}

\* what holds: the call is served exactly for the statuses 'active' and
\* 'waiting', and refused without any change for every other status
ServedIffActiveOrWaiting ==
  \A txId \in TxIds, resId \in ResIds :
    LET r == acquireLock(Mgr, txId, resId)
    IN IF Status(txId) \in {"active", "waiting"}
       THEN r.ret \in {Ret(TRUE, "Lock granted", TRUE), Ret(FALSE, "Waiting", TRUE),
                       Ret(TRUE, "already holds", FALSE)}
       ELSE r = [m |-> Mgr, ret |-> Ret(FALSE, "Transaction is " \o Status(txId), FALSE)]


\* two nodes are in conflict when one reaches the other over one or more edges
Related(g, a, b) == a # b /\ (b \in ReachPlus(g, a) \/ a \in ReachPlus(g, b))

\* C34: computeConflictColorsByReachability colours the nodes in getNodes()
\* order, each with the smallest colour 0, 1, ... that no earlier node related
\* to it by reachability has; every node of getNodes() has one colour,
\* groups[c] lists exactly the nodes coloured c (once each), and the
\* chromaticNumber of greedyVertexColoring is the number of distinct colours,
\* which are exactly 0 .. chromaticNumber - 1.
C34_GreedyColouring ==
  result.alg = "computeConflictColorsByReachability"
  => LET nodes == getNodes(graph)
         colors == result.out.colors
         groups == result.out.groups
         coloring == greedyVertexColoring(graph)
         earlier(i) == {colors[nodes[j]] : j \in {k \in 1..(i - 1) : Related(graph, nodes[k], nodes[i])}}
     IN /\ DOMAIN colors = Range(nodes)
        /\ \A i \in 1..Len(nodes) :
             /\ colors[nodes[i]] \in Nat
             /\ colors[nodes[i]] \notin earlier(i)
             /\ \A c \in 0..(colors[nodes[i]] - 1) : c \in earlier(i)
        /\ DOMAIN groups = {colors[n] : n \in Range(nodes)}
        /\ \A c \in DOMAIN groups :
             /\ Range(groups[c]) = {n \in Range(nodes) : colors[n] = c}
             /\ Len(groups[c]) = Cardinality(Range(groups[c]))
        /\ coloring.colors = colors
        /\ coloring.groups = groups
        /\ coloring.chromaticNumber = Cardinality({colors[n] : n \in Range(nodes)})
        /\ {colors[n] : n \in Range(nodes)} = 0..(coloring.chromaticNumber - 1)

\* the third node is related to the second only and reuses colour 0, so two
\* colours serve three nodes and group 0 has two members
C34_Witness ==
  /\ result.alg = "computeConflictColorsByReachability"
  /\ Len(getNodes(graph)) = 3
  /\ LET nodes == getNodes(graph)
     IN /\ Related(graph, nodes[1], nodes[2])
        /\ Related(graph, nodes[2], nodes[3])
        /\ ~Related(graph, nodes[1], nodes[3])
        /\ result.out.colors[nodes[3]] = 0
        /\ Len(result.out.groups[0]) = 2
  /\ greedyVertexColoring(graph).chromaticNumber = 2


\* twice outDegree(n) + 0.5 * inDegree(n), both counted on the edge set of the
\* whole graph
TwiceScore(g, n) ==
  2 * Cardinality({b \in TxIds : <<n, b>> \in Edges(g)})
    + Cardinality({a \in TxIds : <<a, n>> \in Edges(g)})

\* the first position of seq whose node has the greatest score
FirstBest(score, seq) ==
  CHOOSE i \in 1..Len(seq) :
    /\ \A j \in 1..Len(seq) : score[seq[j]] <= score[seq[i]]
    /\ \A j \in 1..(i - 1) : score[seq[j]] < score[seq[i]]

\* C35: for every non-empty cycle sequence selectVictimFromCycle returns the
\* node of the sequence with the greatest outDegree + 0.5 * inDegree, the
\* degrees taken over the whole graph, and among equal scores the node that
\* comes first in the sequence.
C35_DegreeHeuristic ==
  (result.alg = "selectVictimFromCycle" /\ result.cycle # <<>>)
  => LET score == [n \in TxIds |-> TwiceScore(graph, n)]
     IN result.victim = result.cycle[FirstBest(score, result.cycle)]

\* a sequence whose first two nodes tie, ahead of a third with a smaller
\* positive score, was handed over and its first node returned, on a graph
\* where a tied node has an incoming edge from outside the sequence
C35_Witness ==
  /\ result.alg = "selectVictimFromCycle"
  /\ Len(result.cycle) = 3
  /\ result.cycle[1] # result.cycle[2]
  /\ TwiceScore(graph, result.cycle[1]) = TwiceScore(graph, result.cycle[2])
  /\ TwiceScore(graph, result.cycle[1]) > TwiceScore(graph, result.cycle[3])
  /\ TwiceScore(graph, result.cycle[3]) > 0
  /\ result.victim = result.cycle[1]
  /\ Len(getNeighbors(graph, result.cycle[1])) # Len(getNeighbors(graph, result.cycle[2]))

\* the sum of the shortest-path distances from n to the nodes reachable from
\* it, layer by layer: frontier holds the nodes at distance k
RECURSIVE LayerSum(_, _, _, _)
LayerSum(g, frontier, seen, k) ==
  IF frontier = {} THEN 0
  ELSE LET next == Succ(g, frontier) \ seen
       IN k * Cardinality(frontier) + LayerSum(g, next, seen \cup next, k + 1)
DistanceSum(g, n) == LayerSum(g, {n}, {n}, 0)

\* C36: bfsVictimSelection returns no victim exactly when the graph has no
\* directed cycle; otherwise it returns the cycle dfsDetectCycle reports and
\* the node of it whose sum of shortest-path distances to the nodes reachable
\* from it is greatest, the first such node in the order of the cycle.
C36_DistanceSumHeuristic ==
  result.alg = "bfsVictimSelection"
  => LET detected == dfsDetectCycle(graph).cycle
         sum == [n \in TxIds |-> DistanceSum(graph, n)]
     IN /\ result.out.victim = NULL <=> ~HasDirectedCycle(graph)
        /\ result.out.victim = NULL => IsNull(result.out.cycle)
        /\ result.out.victim # NULL
             => /\ ~IsNull(detected)
                /\ result.out.cycle = detected
                /\ result.out.victim = Val(detected)[FirstBest(sum, Val(detected))]

\* the victim is not the first node of the detected cycle: a later node has
\* the greater distance sum although as many nodes are reachable from it
C36_Witness ==
  /\ result.alg = "bfsVictimSelection"
  /\ result.out.victim # NULL
  /\ result.out.victim # Val(result.out.cycle)[1]
  /\ Cardinality(ReachStar(graph, result.out.victim))
       = Cardinality(ReachStar(graph, Val(result.out.cycle)[1]))

\* C37: a transaction in the wait queue of a resource, unless it is aborted
\* while it waits or the manager is reset, comes to hold the resource with
\* status 'active', provided every holder of the resource eventually releases
\* it.
C37_BoundedWaiting ==
  \A t \in TxIds, r \in ResIds :
    Includes(WaitQueue(r), t)
      ~> \/ LockedBy(r) = t /\ Status(t) = "active"
         \/ Status(t) = "aborted"
         \/ last = Called("reset")

\* the fairness condition of SpecFair is weak fairness: the release by the
\* holder is enabled exactly in the states in which the resource is held
EnabledWhenHeld ==
  \A resId \in ResIds : Held(resId) <=> ENABLED <<HolderReleases(resId)>>_vars

\* the step behind it: a release by the holder makes the head of the queue
\* the holder, with status 'active', and moves every other waiter one place
\* forward; no acquireLock, releaseLock or abortTransaction call moves a waiter
\* back, and only its own abort takes a waiter out of the queue without the
\* lock (reset() empties every queue)
ReleaseAdvancesQueue ==
  \A r \in ResIds :
    LET queue == WaitQueue(r)
    IN /\ queue # <<>> => /\ LockedBy(r) \in TxIds
                          /\ \A k \in 1..Len(queue) : Status(queue[k]) # "aborted"
       /\ LockedBy(r) \in TxIds
            => LET after == releaseLock(Mgr, LockedBy(r), r)
               IN /\ after.ret.success
                  /\ queue # <<>>
                       => /\ after.m.resources[r].lockedBy = queue[1]
                          /\ after.m.transactions[queue[1]].status = "active"
                          /\ Includes(after.m.transactions[queue[1]].heldLocks, r)
                          /\ after.m.resources[r].waitQueue = Tail(queue)
       /\ \A M \in AfterAnyCall : \A k \in 1..Len(queue) :
            \/ M.transactions[queue[k]].status = "aborted"
            \/ /\ M.resources[r].lockedBy = queue[k]
               /\ M.transactions[queue[k]].status = "active"
            \/ /\ Includes(M.resources[r].waitQueue, queue[k])
               /\ IndexOf(M.resources[r].waitQueue, queue[k]) <= k - 1

\* a transaction at position 1 of a queue holds the resource, with status
\* 'active', after the releases of the holder and of the waiter ahead of it
C37_Witness ==
  \E r \in ResIds :
    /\ Len(WaitQueue(r)) = 2
    /\ LockedBy(r) \in TxIds
    /\ LET first == releaseLock(Mgr, LockedBy(r), r).m
           second == releaseLock(first, WaitQueue(r)[1], r).m
       IN /\ second.resources[r].lockedBy = WaitQueue(r)[2]
          /\ second.transactions[WaitQueue(r)[2]].status = "active"
          /\ second.resources[r].waitQueue = <<>>


\* C38: from every reachable state of the manager the resolution loop ends
\* with a detection that reports no cycle, after at most as many aborts as
\* there are transactions, and every victim was a transaction of the cycle
\* reported first by the detection before its abort, and was not aborted.
C38_ResolutionTerminates ==
  LET r == ResolveLoop(Mgr, <<>>)
  IN /\ ~r.hasCycle
     /\ Len(r.steps) <= Len(TxOrder)
     /\ ~TM_detectDeadlock(r.m).out.hasCycle
     /\ \A i \in 1..Len(r.steps) :
          /\ r.steps[i].victim \in TxIds
          /\ Includes(r.steps[i].cycle, r.steps[i].victim)
          /\ r.steps[i].status \in {"active", "waiting"}
          /\ r.m.transactions[r.steps[i].victim].status = "aborted"

\* a state in which the detection reports two cycles and one abort, of a
\* waiting transaction that holds a lock, resolves it
C38_Witness ==
  /\ Len(TM_detectDeadlock(Mgr).out.cycles) = 2
  /\ LET r == ResolveLoop(Mgr, <<>>)
     IN /\ Len(r.steps) = 1
        /\ r.steps[1].status = "waiting"
        /\ HeldLocks(r.steps[1].victim) # <<>>
        /\ r.steps[1].victim # TxOrder[Len(TxOrder)]

\* the positions of the trace with a 'visit' event
VisitEvents(trace) == {i \in 1..Len(trace) : trace[i].type = "visit"}

\* C39: the trace of dfsDetectCycle has at most one 'visit' event per node, no
\* 'visit' of a node after its 'backtrack' event, and as many 'visit' events
\* as the visited count it returns; on a graph without nodes the count is 0
\* and the cycle null, and whenever the cycle is null the count is the number
\* of nodes of getNodes().
C39_NoRevisit ==
  result.alg = "dfsDetectCycle"
  => LET trace == result.out.trace
     IN /\ \A i \in VisitEvents(trace), j \in VisitEvents(trace) :
             trace[i].node = trace[j].node => i = j
        /\ \A i \in 1..Len(trace), j \in VisitEvents(trace) :
             (trace[i].type = "backtrack" /\ trace[i].node = trace[j].node) => j < i
        /\ result.out.visited = Cardinality(VisitEvents(trace))
        /\ getNodes(graph) = <<>> => (result.out.visited = 0 /\ IsNull(result.out.cycle))
        /\ IsNull(result.out.cycle) => result.out.visited = Len(getNodes(graph))

\* no cycle was found on a graph with three nodes, and the search from a later
\* root met a node finished (black) before: the edge is recorded, the node is
\* not visited again
C39_Witness ==
  /\ result.alg = "dfsDetectCycle"
  /\ IsNull(result.out.cycle)
  /\ result.out.visited = 3
  /\ LET trace == result.out.trace
     IN \E i \in 1..Len(trace), j \in 1..Len(trace) :
          /\ i < j
          /\ trace[i].type = "backtrack"
          /\ trace[j].type = "edge"
          /\ trace[j].to = trace[i].node
          /\ trace[j].from # getNodes(graph)[1]
          /\ trace[i].node # getNodes(graph)[1]

\* C40: a TransactionManager.detectDeadlock() call adds to
\* metrics.deadlocksDetected exactly the number of cycles in the result it
\* returns, nothing when hasCycle is false, and no acquireLock, releaseLock or
\* abortTransaction call changes the counter.
C40_DeadlockCounter ==
  /\ LET detected == TM_detectDeadlock(Mgr)
     IN /\ detected.m.metrics.deadlocksDetected
             = metrics.deadlocksDetected + Len(detected.out.cycles)
        /\ ~detected.out.hasCycle
             => detected.m.metrics.deadlocksDetected = metrics.deadlocksDetected
  /\ result.alg = "TransactionManager.detectDeadlock"
       => metrics.deadlocksDetected >= Len(result.out.cycles)
  /\ \A txId \in TxArgs, resId \in ResArgs :
       /\ acquireLock(Mgr, txId, resId).m.metrics.deadlocksDetected = metrics.deadlocksDetected
       /\ releaseLock(Mgr, txId, resId).m.metrics.deadlocksDetected = metrics.deadlocksDetected
       /\ abortTransaction(Mgr, txId).m.metrics.deadlocksDetected = metrics.deadlocksDetected

\* one detection returned two cycles and the counter, 0 before, is 2
C40_Witness ==
  /\ result.alg = "TransactionManager.detectDeadlock"
  /\ Len(result.out.cycles) = 2
  /\ metrics.deadlocksDetected = 2

\* C31 (as claimed): managers built on the three representations and given
\* the same acquireLock / releaseLock / abortTransaction calls have the same
\* lock tables and the same edge sets, and detectDeadlock() returns in all
\* three the same hasCycle, the same number of cycles and the same set of
\* mentioned transactions, so that metrics.deadlocksDetected is equal.
C31_SameManagers ==
  \A a \in DSTypes, b \in DSTypes :
    /\ reps[a].transactions = reps[b].transactions
    /\ reps[a].resources = reps[b].resources
    /\ Edges(reps[a].wfg) = Edges(reps[b].wfg)
    /\ reps[a].metrics.deadlocksDetected = reps[b].metrics.deadlocksDetected
    /\ LET da == TM_detectDeadlock(reps[a]).out
           db == TM_detectDeadlock(reps[b]).out
       IN /\ da.hasCycle = db.hasCycle
          /\ Len(da.cycles) = Len(db.cycles)
          /\ Range(getDeadlockedTransactions(da.cycles))
               = Range(getDeadlockedTransactions(db.cycles))

\* what holds: the lock tables, the edge sets, the operation and conflict
\* counters and detectDeadlock()'s hasCycle are the same in all three
SameLocksAndEdges ==
  \A a \in DSTypes, b \in DSTypes :
    /\ reps[a].transactions = reps[b].transactions
    /\ reps[a].resources = reps[b].resources
    /\ Edges(reps[a].wfg) = Edges(reps[b].wfg)
    /\ reps[a].metrics.operations = reps[b].metrics.operations
    /\ reps[a].metrics.conflicts = reps[b].metrics.conflicts
    /\ TM_detectDeadlock(reps[a]).out.hasCycle = TM_detectDeadlock(reps[b]).out.hasCycle
====
